---- MODULE Spec2Model ----
(***************************************************************************)
(* A model of the conversion core of html-to-markdown:                     *)
(* converter/main.rs, convert_html_impl and walk_node.                     *)
(*                                                                         *)
(* A string is a sequence of one-character strings.  A DOM node is a       *)
(* record [kind, name, text, href, children]; the text of a "text" node    *)
(* is the node's text after entity decoding.  The parsed document is the   *)
(* sequence of its root children.                                          *)
(***************************************************************************)
EXTENDS Integers, Sequences, FiniteSets, TLC

VARIABLES pc, input, dom, output, next, visitor_error, visits, result,
          repairs, parses, entry

vars ==
    <<pc, input, dom, output, next, visitor_error, visits, result, repairs,
      parses, entry>>

(***************************************************************************)
(* Bounds of the model.                                                    *)
(***************************************************************************)
\* longest run of spaces in a text node of the input
MaxWs == 3
\* number of successive parse attempts the fast parser may reject
MaxParseFail == 2

(***************************************************************************)
(* Strings.                                                                *)
(***************************************************************************)
\* the backtick character, written ^ (a TLA+ string cannot hold a backtick)
BT == "^"

RECURSIVE Concat(_)
Concat(ss) == IF ss = <<>> THEN <<>> ELSE Head(ss) \o Concat(Tail(ss))

RECURSIVE Repeat(_, _)
Repeat(s, n) == IF n = 0 THEN <<>> ELSE s \o Repeat(s, n - 1)

EndsWith(s, suf) ==
    /\ Len(s) >= Len(suf)
    /\ SubSeq(s, Len(s) - Len(suf) + 1, Len(s)) = suf

StartsWith(s, pre) ==
    /\ Len(s) >= Len(pre)
    /\ SubSeq(s, 1, Len(pre)) = pre

Contains(s, sub) ==
    \E i \in 1..(Len(s) - Len(sub) + 1) : SubSeq(s, i, i + Len(sub) - 1) = sub

IsWs(c) == c \in {" ", "\t", "\n", "\r"}

\* str::trim_end_matches over a set of characters
RECURSIVE TrimEndMatches(_, _)
TrimEndMatches(s, cs) ==
    IF s # <<>> /\ s[Len(s)] \in cs
    THEN TrimEndMatches(SubSeq(s, 1, Len(s) - 1), cs)
    ELSE s

RECURSIVE TrimStartMatches(_, _)
TrimStartMatches(s, cs) ==
    IF s # <<>> /\ Head(s) \in cs THEN TrimStartMatches(Tail(s), cs) ELSE s

\* str::trim, str::trim_end, str::trim_start
WsChars == {" ", "\t", "\n", "\r"}
TrimEnd(s) == TrimEndMatches(s, WsChars)
TrimStart(s) == TrimStartMatches(s, WsChars)
Trim(s) == TrimStart(TrimEnd(s))

\* str::split('\n'): the lines of s, at least one
RECURSIVE SplitNl(_, _)
SplitNl(s, cur) ==
    IF s = <<>> THEN <<cur>>
    ELSE IF Head(s) = "\n" THEN <<cur>> \o SplitNl(Tail(s), <<>>)
    ELSE SplitNl(Tail(s), Append(cur, Head(s)))

Lines(s) == SplitNl(s, <<>>)

RECURSIVE JoinNl(_)
JoinNl(ls) ==
    IF Len(ls) = 0 THEN <<>>
    ELSE IF Len(ls) = 1 THEN ls[1]
    ELSE ls[1] \o <<"\n">> \o JoinNl(Tail(ls))

(***************************************************************************)
(* trim_trailing_whitespace and trim_line_end_whitespace.                  *)
(***************************************************************************)
trim_trailing_whitespace(out) == TrimEndMatches(out, {" ", "\t"})

\* one line of trim_line_end_whitespace: the line without its trailing
\* spaces and tabs, followed by two spaces when the line ended with two
trim_line_soft_break_untrimmed(line) ==
    IF EndsWith(line, <<" ", " ">>) THEN line
    ELSE TrimEndMatches(line, {" ", "\t"})

trim_line(line) ==
    LET has_soft_break == EndsWith(line, <<" ", " ">>)
        trimmed == TrimEndMatches(line, {" ", "\t"})
    IN  IF has_soft_break THEN trimmed \o <<" ", " ">> ELSE trimmed

trim_line_end_whitespace(out) ==
    IF out = <<>> THEN <<>>
    ELSE LET ls == Lines(out)
         IN  JoinNl([i \in 1..Len(ls) |-> trim_line(ls[i])]) \o <<"\n">>

\* the tail of convert_html_impl: trim every line, drop the trailing
\* newlines, and end a non-empty result with one newline
finalize_keep_newlines(out) ==
    LET cleaned == trim_line_end_whitespace(out)
    IN  IF TrimEndMatches(cleaned, {"\n"}) = <<>> THEN <<>> ELSE cleaned

finalize_output(out) ==
    LET cleaned == trim_line_end_whitespace(out)
        trimmed == TrimEndMatches(cleaned, {"\n"})
    IN  IF trimmed = <<>> THEN <<>> ELSE trimmed \o <<"\n">>

(***************************************************************************)
(* DOM nodes (tl::Node): Tag, Raw text, Comment.                           *)
(***************************************************************************)
\* class is the sequence of the class attribute's whitespace-separated
\* tokens, each [prefix, rest]: "language-x" is ["language-", <<"x">>]
\* start is the parsed start attribute of an ol, -1 when there is none;
\* checkbox is "" unless the element is an input of type checkbox, and then
\* "checked" or "unchecked" by its checked attribute
\* meta is <<>> unless the element has a name and a content attribute, and
\* then the pair of the two
NoAttrs ==
    [has_href |-> FALSE, href |-> <<>>, nav_hint |-> FALSE, class |-> <<>>,
     start |-> -1, checkbox |-> "", meta |-> <<>>,
     src |-> <<>>, alt |-> <<>>, has_title |-> FALSE, title |-> <<>>]

ClassToken(prefix, rest) == [prefix |-> prefix, rest |-> rest]

Classed(n, tokens) == [n EXCEPT !.attrs.class = tokens]

TextNode(t) ==
    [kind |-> "text", name |-> "", text |-> t, attrs |-> NoAttrs, children |-> <<>>]

CommentNode ==
    [kind |-> "comment", name |-> "", text |-> <<>>, attrs |-> NoAttrs, children |-> <<>>]

Tag(n, cs) ==
    [kind |-> "tag", name |-> n, text |-> <<>>, attrs |-> NoAttrs, children |-> cs]

Anchor(h, cs) ==
    [kind |-> "tag", name |-> "a", text |-> <<>>,
     attrs |-> [NoAttrs EXCEPT !.has_href = TRUE, !.href = h], children |-> cs]

IsTag(n) == n.kind = "tag"
IsRaw(n) == n.kind = "text"

(***************************************************************************)
(* Tag classification.                                                     *)
(***************************************************************************)
InlineElements ==
    {"a", "abbr", "b", "bdi", "bdo", "br", "cite", "code", "data", "dfn", "em",
     "i", "kbd", "mark", "q", "rp", "rt", "ruby", "s", "samp", "small", "span",
     "strong", "sub", "sup", "time", "u", "var", "wbr", "del", "ins", "img",
     "map", "area", "audio", "video", "picture", "source", "track", "embed",
     "object", "param", "input", "label", "button", "select", "textarea",
     "output", "progress", "meter"}

is_inline_element(tag_name) == tag_name \in InlineElements

inline_ancestor_allows_block(tag_name) == tag_name \in {"a", "ins", "del"}

\* utility::content::is_block_level_name: the structural elements whose
\* rendering demands surrounding blank lines
BlockElements ==
    {"p", "h1", "h2", "h3", "h4", "h5", "h6", "div", "ul", "ol", "li",
     "blockquote", "table", "pre", "hr", "article", "section", "nav", "aside",
     "header", "footer", "main", "figure", "dl", "dt", "dd", "details", "form"}

is_block_level_name(tag_name, is_inline) ==
    ~is_inline /\ tag_name \in BlockElements

\* DomContext::build_tag_info
is_inline_like(tag_name) ==
    is_inline_element(tag_name) \/ tag_name \in {"script", "style"}

is_block(tag_name) == is_block_level_name(tag_name, is_inline_element(tag_name))

(***************************************************************************)
(* DomContext: sibling predicates.  sibs is the sequence of the parent's   *)
(* children (the root children for a root node), i the node's index.       *)
(***************************************************************************)
IsBlankRaw(n) == IsRaw(n) /\ Trim(n.text) = <<>>

\* DomContext::previous_inline_like
RECURSIVE previous_inline_like(_, _)
previous_inline_like(sibs, i) ==
    IF i <= 1 THEN FALSE
    ELSE LET s == sibs[i - 1]
         IN  IF IsTag(s) THEN is_inline_like(s.name)
             ELSE IF IsRaw(s) /\ ~IsBlankRaw(s) THEN FALSE
             ELSE previous_inline_like(sibs, i - 1)

\* DomContext::next_inline_like
RECURSIVE next_inline_like(_, _)
next_inline_like(sibs, i) ==
    IF i >= Len(sibs) THEN FALSE
    ELSE LET s == sibs[i + 1]
         IN  IF IsTag(s) THEN is_inline_like(s.name)
             ELSE IF IsRaw(s) /\ ~IsBlankRaw(s) THEN FALSE
             ELSE next_inline_like(sibs, i + 1)

\* DomContext::next_tag_id and next_tag_name: "" stands for None
RECURSIVE next_tag_name(_, _)
next_tag_name(sibs, i) ==
    IF i >= Len(sibs) THEN ""
    ELSE LET s == sibs[i + 1]
         IN  IF IsTag(s) THEN s.name
             ELSE IF IsRaw(s) /\ ~IsBlankRaw(s) THEN ""
             ELSE next_tag_name(sibs, i + 1)

\* utility::siblings
previous_sibling_is_inline_tag(sibs, i) == previous_inline_like(sibs, i)
next_sibling_is_inline_tag(sibs, i) == next_inline_like(sibs, i)
get_next_sibling_tag(sibs, i) == next_tag_name(sibs, i)

RECURSIVE get_previous_sibling_tag(_, _)
get_previous_sibling_tag(sibs, i) ==
    IF i <= 1 THEN ""
    ELSE LET s == sibs[i - 1]
         IN  IF IsTag(s) THEN s.name
             ELSE IF IsRaw(s) /\ ~IsBlankRaw(s) THEN ""
             ELSE get_previous_sibling_tag(sibs, i - 1)

\* DomContext::text_content_uncached
RECURSIVE text_content(_)
text_content(n) ==
    IF IsRaw(n) THEN n.text
    ELSE IF IsTag(n)
         THEN Concat([k \in 1..Len(n.children) |-> text_content(n.children[k])])
         ELSE <<>>

get_text_content(n) == text_content(n)

(***************************************************************************)
(* Options (ConversionOptions), Context and the visitor.                   *)
(***************************************************************************)
DefaultOptions ==
    [whitespace_mode |-> "Normalized", strip_newlines |-> FALSE,
     convert_as_inline |-> FALSE, autolinks |-> FALSE, default_title |-> FALSE,
     strip_tags |-> {}, preserve_tags |-> {}, extract_metadata |-> FALSE,
     heading_style |-> "Atx", newline_style |-> "Spaces",
     code_block_style |-> "Backticks", code_language |-> <<>>,
     strong_em_symbol |-> "*", escape_misc |-> FALSE,
     escape_asterisks |-> FALSE, escape_underscores |-> FALSE,
     escape_ascii |-> FALSE, remove_navigation |-> FALSE,
     keep_inline_images_in |-> {}, list_indent_type |-> "Spaces",
     list_indent_width |-> 2, bullets |-> <<"-">>, skip_images |-> FALSE]

\* the Context built by convert_html_impl before the walk; anc is the chain
\* of ancestor tag names DomContext::parent_of yields for the node walked
InitialContext(o) ==
    [in_code |-> FALSE, list_counter |-> 0, in_ordered_list |-> FALSE,
     last_was_dt |-> FALSE, blockquote_depth |-> 0, in_table_cell |-> FALSE,
     convert_as_inline |-> o.convert_as_inline, inline_depth |-> 0,
     in_list_item |-> FALSE, list_depth |-> 0, ul_depth |-> 0,
     in_list |-> FALSE, loose_list |-> FALSE, prev_item_had_blocks |-> FALSE,
     in_heading |-> FALSE, heading_allow_inline_images |-> FALSE,
     in_paragraph |-> FALSE, in_ruby |-> FALSE, in_strong |-> FALSE,
     in_link |-> FALSE, anc |-> <<>>]

\* The visitor is the caller's object: the model fixes, per callback, the
\* VisitResult it returns.  Custom carries CustomText; Error carries the
\* callback's name as its message.
Callbacks ==
    {"visit_element_start", "visit_element_end", "visit_text", "visit_heading",
     "visit_link", "visit_strong", "visit_emphasis", "visit_code_inline",
     "visit_code_block", "visit_list_start", "visit_list_item", "visit_list_end",
     "visit_image", "visit_underline"}

ListCallbacks == {"visit_list_start", "visit_list_item", "visit_list_end"}

ImageCallbacks == {"visit_image"}

UnderlineCallbacks == {"visit_underline"}

\* the callbacks of the handlers that get visitors of their own below
SideCallbacks == ListCallbacks \cup ImageCallbacks \cup UnderlineCallbacks

VisitResults == {"Continue", "Skip", "Custom", "PreserveHtml", "Error"}

CustomText == <<"X">>

NoVisitor == [on |-> FALSE, res |-> [c \in Callbacks |-> "Continue"]]

VisitorWith(f) == [on |-> TRUE, res |-> f]

\* the panics of the walker: a second borrow_mut of the visitor handle, a
\* remainder by bullets.len() = 0, a str slice that starts past the end
AlreadyBorrowed == "already borrowed"

RemainderByZero == "remainder with a divisor of zero"

ListSliceOutOfBounds == "list_output_start is out of bounds"

ElementSliceOutOfBounds == "element_output_start is out of bounds"

Panic(st, why) == [st EXCEPT !.panic = TRUE, !.why = why]

\* the walker's running state: the buffer it appends to, the context's
\* visitor_error cell ("" for None, else the message), and the log of the
\* visitor callbacks made so far with what each returned
\* early: the handler returned before the element-end callback;
\* panic: a slice or borrow of the walker panicked
\* borrowed: a RefMut of the visitor handle is live; why: the panic's message
WalkState(out, err, log) ==
    [out |-> out, err |-> err, log |-> log, early |-> FALSE, panic |-> FALSE,
     borrowed |-> FALSE, why |-> ""]

\* visitor_handle.borrow_mut() and the callback: its result is logged; the
\* borrow panics while another RefMut of the handle is live
Visited(st, cb, env) ==
    IF st.borrowed THEN Panic(st, AlreadyBorrowed)
    ELSE [st EXCEPT !.log = Append(@, [cb |-> cb, res |-> env.v.res[cb]])]

\* if ctx.visitor_error.borrow().is_none() { *... = Some(err) }
record_visitor_error(st, cb) ==
    IF st.err = "" THEN [st EXCEPT !.err = cb] ELSE st

Push(st, s) == [st EXCEPT !.out = @ \o s]

(***************************************************************************)
(* crate::text: escape, normalize_whitespace, chomp.                       *)
(***************************************************************************)
MiscSpecials == {"[", "]", BT, ">", "#", "|", "\\"}

escape_char(c, o) ==
    IF \/ (o.escape_misc /\ c \in MiscSpecials)
       \/ (o.escape_asterisks /\ c = "*")
       \/ (o.escape_underscores /\ c = "_")
    THEN <<"\\", c>>
    ELSE <<c>>

escape(s, o) == Concat([k \in 1..Len(s) |-> escape_char(s[k], o)])

\* runs of whitespace collapse to one space
RECURSIVE normalize_whitespace(_)
normalize_whitespace(s) ==
    IF s = <<>> THEN <<>>
    ELSE IF IsWs(Head(s))
         THEN <<" ">> \o normalize_whitespace(TrimStart(s))
         ELSE <<Head(s)>> \o normalize_whitespace(Tail(s))

\* (prefix, suffix, core): a space where the text starts or ends with
\* whitespace, and the trimmed text
chomp(s) ==
    [prefix |-> IF s # <<>> /\ IsWs(Head(s)) THEN <<" ">> ELSE <<>>,
     suffix |-> IF s # <<>> /\ IsWs(s[Len(s)]) THEN <<" ">> ELSE <<>>,
     core |-> Trim(s)]

\* utility::content::chomp_inline: the leading whitespace, the trailing
\* whitespace and the trimmed content
chomp_inline(s) ==
    [prefix |-> SubSeq(s, 1, Len(s) - Len(TrimStart(s))),
     suffix |-> IF Trim(s) = <<>> THEN <<>>
                ELSE SubSeq(s, Len(TrimEnd(s)) + 1, Len(s)),
     trimmed |-> Trim(s)]

ReplaceNewlines(s) ==
    [k \in 1..Len(s) |-> IF s[k] \in {"\r", "\n"} THEN " " ELSE s[k]]

\* str::split("\n\n")
RECURSIVE SplitBlank(_, _)
SplitBlank(s, cur) ==
    IF s = <<>> THEN <<cur>>
    ELSE IF StartsWith(s, <<"\n", "\n">>)
         THEN <<cur>> \o SplitBlank(SubSeq(s, 3, Len(s)), <<>>)
         ELSE SplitBlank(Tail(s), Append(cur, Head(s)))

(***************************************************************************)
(* utility::serialization, block::heading, inline::link, utility::content. *)
(***************************************************************************)
StrOf(name) ==
    CASE name = "a" -> <<"a">>
      [] name = "p" -> <<"p">>
      [] name = "b" -> <<"b">>
      [] name = "i" -> <<"i">>
      [] name = "em" -> <<"e", "m">>
      [] name = "code" -> <<"c", "o", "d", "e">>
      [] name = "ul" -> <<"u", "l">>
      [] name = "meta" -> <<"m", "e", "t", "a">>
      [] name = "title" -> <<"t", "i", "t", "l", "e">>
      [] name = "head" -> <<"h", "e", "a", "d">>
      [] name = "html" -> <<"h", "t", "m", "l">>
      [] name = "body" -> <<"b", "o", "d", "y">>
      [] name = "ol" -> <<"o", "l">>
      [] name = "li" -> <<"l", "i">>
      [] name = "menu" -> <<"m", "e", "n", "u">>
      [] name = "input" -> <<"i", "n", "p", "u", "t">>
      [] name = "img" -> <<"i", "m", "g">>
      [] name = "u" -> <<"u">>
      [] name = "h1" -> <<"h", "1">>
      [] name = "h2" -> <<"h", "2">>
      [] name = "h3" -> <<"h", "3">>
      [] name = "div" -> <<"d", "i", "v">>
      [] name = "pre" -> <<"p", "r", "e">>
      [] name = "nav" -> <<"n", "a", "v">>
      [] name = "span" -> <<"s", "p", "a", "n">>
      [] name = "strong" -> <<"s", "t", "r", "o", "n", "g">>
      [] name = "x-t" -> <<"x", "-", "t">>
      [] OTHER -> <<name>>

\* serialize_tag_to_html: the element's start tag, the serialization of its
\* children, and its end tag; a text node is its text
RECURSIVE serialize_node(_)
serialize_node(n) ==
    IF IsRaw(n) THEN n.text
    ELSE IF ~IsTag(n) THEN <<"<", "!", "-", "-", "-", "-", ">">>
    ELSE <<"<">> \o StrOf(n.name)
         \o (IF n.attrs.has_href
             THEN <<" ", "h", "r", "e", "f", "=", "\"">> \o n.attrs.href \o <<"\"">>
             ELSE <<>>)
         \o <<">">>
         \o Concat([k \in 1..Len(n.children) |-> serialize_node(n.children[k])])
         \o <<"<", "/">> \o StrOf(n.name) \o <<">">>

serialize_children_only(n) ==
    Concat([k \in 1..Len(n.children) |-> serialize_node(n.children[k])])

serialize_tag_to_html(n) == serialize_node(n)

HeadingNames == {"h1", "h2", "h3", "h4", "h5", "h6"}

HeadingLevel(name) ==
    CASE name = "h1" -> 1 [] name = "h2" -> 2 [] name = "h3" -> 3
      [] name = "h4" -> 4 [] name = "h5" -> 5 [] name = "h6" -> 6
      [] OTHER -> 1

\* text::normalize_heading_text: the heading on a single line
RECURSIVE heading_one_line(_, _, _)
heading_one_line(s, acc, pending) ==
    IF s = <<>> THEN acc
    ELSE LET ch == Head(s)
         IN  IF ch \in {"\n", "\r"}
             THEN heading_one_line(Tail(s), acc, acc # <<>>)
             ELSE IF ch \in {" ", "\t"} /\ pending
             THEN heading_one_line(Tail(s), acc, pending)
             ELSE heading_one_line(Tail(s),
                      (IF pending /\ ~EndsWith(acc, <<" ">>)
                       THEN Append(acc, " ") ELSE acc) \o <<ch>>,
                      FALSE)

normalize_heading_text(s) ==
    IF ~Contains(s, <<"\n">>) /\ ~Contains(s, <<"\r">>) THEN s
    ELSE heading_one_line(s, <<>>, FALSE)

heading_allows_inline_images(tag_name, keep) == tag_name \in keep

\* block::heading::push_heading: in inline mode the text alone; else the
\* text in the heading style, followed by a blank line
push_heading(out, ctx, o, level, text) ==
    IF text = <<>> THEN out
    ELSE IF ctx.convert_as_inline THEN out \o text
    ELSE IF o.heading_style = "Underlined" /\ level <= 2
    THEN out \o text \o <<"\n">>
         \o Repeat(<<IF level = 1 THEN "=" ELSE "-">>, Len(text)) \o <<"\n", "\n">>
    ELSE out \o Repeat(<<"#">>, level) \o <<" ">> \o text
         \o (IF o.heading_style = "AtxClosed"
             THEN <<" ">> \o Repeat(<<"#">>, level) ELSE <<>>)
         \o <<"\n", "\n">>

\* block::heading::find_single_heading_child: the index of the heading
\* that is the anchor's only child besides blank text and comments, or 0
NonBlankChildren(n) ==
    {k \in 1..Len(n.children) :
        \/ IsTag(n.children[k])
        \/ (IsRaw(n.children[k]) /\ ~IsBlankRaw(n.children[k]))}

find_single_heading_child(n) ==
    LET ks == NonBlankChildren(n)
    IN  IF /\ Cardinality(ks) = 1
           /\ \A k \in ks : IsTag(n.children[k]) /\ n.children[k].name \in HeadingNames
        THEN CHOOSE k \in ks : TRUE
        ELSE 0

\* utility::content
is_empty_inline_element(n) ==
    IsTag(n) /\ is_inline_element(n.name) /\ Trim(text_content(n)) = <<>>

normalize_link_label(s) == Trim(normalize_whitespace(s))

escape_link_label(s) ==
    Concat([k \in 1..Len(s) |->
        IF s[k] \in {"[", "]"} THEN <<"\\", s[k]>> ELSE <<s[k]>>])

\* collect_link_label_text: (inline_label, saw_block)
collect_link_label_text(children) ==
    [inline_label |->
        Concat([k \in 1..Len(children) |->
            IF IsTag(children[k]) /\ is_block(children[k].name)
            THEN <<>> ELSE text_content(children[k])]),
     saw_block |->
        \E k \in 1..Len(children) :
            IsTag(children[k]) /\ is_block(children[k].name)]

\* inline::link::append_markdown_link: [label](href "title"); the title
\* defaults to the href under default_title; the model's anchors carry no
\* title attribute
append_markdown_link(buf, escaped_label, href, raw_text, o) ==
    buf \o <<"[">> \o escaped_label \o <<"]", "(">>
        \o (IF href = <<>> THEN <<"<", ">">> ELSE href)
        \o (IF o.default_title /\ raw_text = href
            THEN <<" ", "\"">> \o href \o <<"\"">> ELSE <<>>)
        \o <<")">>

\* utility::siblings::append_inline_suffix
append_inline_suffix(out, suffix) == out \o suffix

\* utility::attributes
has_semantic_content_ancestor(ctx) ==
    \E k \in 1..Len(ctx.anc) : ctx.anc[k] \in {"article", "main", "section"}

element_has_navigation_hint(n) == n.attrs.nav_hint

\* should_drop_for_preprocessing; remove_navigation stands for
\* preprocessing.enabled and preprocessing.remove_navigation together
should_drop_for_preprocessing(n, ctx, o) ==
    IF ~o.remove_navigation THEN FALSE
    ELSE IF n.name = "nav" THEN TRUE
    ELSE IF n.name = "header"
         THEN ~has_semantic_content_ancestor(ctx) \/ element_has_navigation_hint(n)
    ELSE IF n.name \in {"footer", "aside"} THEN element_has_navigation_hint(n)
    ELSE FALSE

(***************************************************************************)
(* walk_node, tl::Node::Raw: a text node.                                  *)
(***************************************************************************)
\* a whitespace-only text node: what the buffer becomes
blank_text(out, text, had_newlines, has_double_newline, sibs, i, ctx, o) ==
    IF ctx.in_code THEN out \o text
    ELSE IF o.whitespace_mode = "Strict"
    THEN IF ctx.convert_as_inline \/ ctx.in_table_cell \/ ctx.in_list_item
         THEN out \o text
         ELSE IF has_double_newline
         THEN (IF ~EndsWith(out, <<"\n", "\n">>) THEN out \o <<"\n">> ELSE out)
         ELSE out \o text
    ELSE IF had_newlines THEN out
    ELSE IF /\ previous_sibling_is_inline_tag(sibs, i)
            /\ next_sibling_is_inline_tag(sibs, i)
    THEN IF Len(text) > 1
         THEN (IF ~EndsWith(out, <<" ">>) THEN out \o <<" ">> ELSE out)
         ELSE out \o text
    ELSE out \o text

EscapePipes(s) ==
    Concat([k \in 1..Len(s) |-> IF s[k] = "|" THEN <<"\\", "|">> ELSE <<s[k]>>])

\* the text of a node in Normalized mode outside code and table cells
normalized_text(out, text, sibs, i, ctx, o) ==
    LET has_double_newline ==
            Contains(text, <<"\n", "\n">>) \/ Contains(text, <<"\r", "\n", "\r", "\n">>)
        has_trailing_single_newline ==
            /\ EndsWith(text, <<"\n">>)
            /\ ~EndsWith(text, <<"\n", "\n">>)
            /\ ~EndsWith(text, <<"\r", "\n", "\r", "\n">>)
        c == chomp(normalize_whitespace(text))
        skip_prefix ==
            \/ EndsWith(out, <<"\n", "\n">>)
            \/ EndsWith(out, <<"*", " ">>)
            \/ EndsWith(out, <<"-", " ">>)
            \/ EndsWith(out, <<".", " ">>)
            \/ EndsWith(out, <<"]", " ">>)
            \/ (EndsWith(out, <<"\n">>) /\ c.prefix = <<" ">>)
            \/ (/\ EndsWith(out, <<" ">>)
                /\ c.prefix = <<" ">>
                /\ ~previous_sibling_is_inline_tag(sibs, i))
        inline_ctx == ctx.inline_depth > 0 \/ ctx.convert_as_inline \/ ctx.in_paragraph
        tail ==
            IF c.suffix # <<>> THEN c.suffix
            ELSE IF has_trailing_single_newline /\ ~EndsWith(out, <<"\n", "\n">>)
            THEN IF has_double_newline THEN <<"\n">>
                 ELSE IF get_next_sibling_tag(sibs, i) = "span" THEN <<>>
                 ELSE IF inline_ctx THEN <<" ">>
                 ELSE <<"\n">>
            ELSE <<>>
    IN  (IF ~skip_prefix THEN c.prefix ELSE <<>>) \o escape(c.core, o) \o tail

processed_text(out, text, sibs, i, ctx, o) ==
    IF ctx.in_code \/ ctx.in_ruby THEN text
    ELSE IF ctx.in_table_cell
    THEN LET escaped == IF o.whitespace_mode = "Normalized"
                        THEN escape(normalize_whitespace(text), o)
                        ELSE escape(text, o)
         IN  IF o.escape_misc THEN escaped ELSE EscapePipes(escaped)
    ELSE IF o.whitespace_mode = "Strict" THEN escape(text, o)
    ELSE normalized_text(out, text, sibs, i, ctx, o)

\* the text pushed for the node: inside a list item a text with blank
\* lines is re-indented part by part
push_text(out, final_text, ctx) ==
    IF ctx.in_list_item /\ Contains(final_text, <<"\n", "\n">>)
    THEN LET parts == SplitBlank(final_text, <<>>)
             indent == Repeat(<<" ">>, 4 * ctx.list_depth)
         IN  out \o Concat([k \in 1..Len(parts) |->
                    (IF k > 1 THEN <<"\n", "\n">> \o indent ELSE <<>>)
                    \o Trim(parts[k])])
    ELSE out \o final_text

\* visit_text's Custom result: used outside inline elements and headings
custom_text_applies(ctx) == ~(ctx.inline_depth > 0 \/ ctx.in_heading)

\* the visitor's answer to visit_text applied to the processed text
visit_text(st, processed, ctx, env) ==
    LET r == env.v.res["visit_text"]
        st1 == Visited(st, "visit_text", env)
    IN  CASE r = "Continue" -> [st1 EXCEPT !.out = push_text(@, processed, ctx)]
          [] r = "Custom" ->
                [st1 EXCEPT !.out = push_text(@,
                    IF custom_text_applies(ctx) THEN CustomText ELSE processed, ctx)]
          [] r = "Skip" -> st1
          [] r = "Error" -> record_visitor_error(st1, "visit_text")
          [] OTHER -> [st1 EXCEPT !.out = push_text(@, processed, ctx)]

walk_raw(sibs, i, st, ctx, env) ==
    LET o == env.o
        text0 == sibs[i].text
        had_newlines == Contains(text0, <<"\n">>)
        has_double_newline ==
            Contains(text0, <<"\n", "\n">>) \/ Contains(text0, <<"\r", "\n", "\r", "\n">>)
        text == IF o.strip_newlines THEN ReplaceNewlines(text0) ELSE text0
    IN  IF text0 = <<>> THEN st
        ELSE IF Trim(text) = <<>>
        THEN [st EXCEPT !.out =
                blank_text(@, text, had_newlines, has_double_newline, sibs, i, ctx, o)]
        ELSE LET processed == processed_text(st.out, text, sibs, i, ctx, o)
             IN  IF env.v.on THEN visit_text(st, processed, ctx, env)
                 ELSE [st EXCEPT !.out = push_text(@, processed, ctx)]

(***************************************************************************)
(* walk_node, tl::Node::Tag: the element handlers.                         *)
(***************************************************************************)
RECURSIVE WalkNode(_, _, _, _, _)
RECURSIVE WalkFrom(_, _, _, _, _)
RECURSIVE WalkFromP(_, _, _, _, _)
RECURSIVE link_block_label(_, _, _, _, _)

NLNL == <<"\n", "\n">>

\* for child_handle in children.top().iter() { walk_node(child, ...) }
WalkChildren(n, st, ctx, env) ==
    WalkFrom(n.children, 1, st, [ctx EXCEPT !.anc = Append(@, n.name)], env)

\* the children walked into a fresh buffer: the result's out is the content
Collect(n, st, ctx, env) == WalkChildren(n, [st EXCEPT !.out = <<>>], ctx, env)

\* list::utils::add_list_continuation_indent
add_list_continuation_indent(out, list_depth, blank_line, o) ==
    LET t == trim_trailing_whitespace(out)
        sep == IF blank_line
               THEN (IF EndsWith(t, NLNL) THEN <<>>
                     ELSE IF EndsWith(t, <<"\n">>) THEN <<"\n">> ELSE NLNL)
               ELSE (IF EndsWith(t, <<"\n">>) THEN <<>> ELSE <<"\n">>)
        unit == IF o.list_indent_type = "Tabs" THEN <<"\t">>
                ELSE Repeat(<<" ">>, o.list_indent_width)
    IN  t \o sep \o Repeat(unit, list_depth)

hard_break(o) ==
    IF o.newline_style = "Spaces" THEN <<" ", " ", "\n">> ELSE <<"\\", "\n">>

\* h1..h6: the separator ahead of the heading
heading_leading_sep(out, ctx) ==
    LET needs_leading_sep ==
            /\ ~ctx.in_table_cell
            /\ ~ctx.in_list_item
            /\ ~ctx.convert_as_inline
            /\ ctx.blockquote_depth = 0
            /\ out # <<>>
            /\ ~EndsWith(out, NLNL)
    IN  IF needs_leading_sep THEN trim_trailing_whitespace(out) \o NLNL ELSE out

\* what visit_heading makes of the heading: [some, text]
heading_output(st, default, env) ==
    LET r == env.v.res["visit_heading"]
    IN  IF ~env.v.on THEN [st |-> st, some |-> TRUE, text |-> default]
        ELSE LET st1 == Visited(st, "visit_heading", env)
             IN  CASE r = "Custom" -> [st |-> st1, some |-> TRUE, text |-> CustomText]
                   [] r = "Skip" -> [st |-> st1, some |-> FALSE, text |-> <<>>]
                   [] r = "Error" ->
                        [st |-> record_visitor_error(st1, "visit_heading"),
                         some |-> FALSE, text |-> <<>>]
                   [] OTHER -> [st |-> st1, some |-> TRUE, text |-> default]

\* the heading once its children are walked: inner is the walk's result
\* and out1 the buffer with the separator
heading_emit(h, out1) == [h.st EXCEPT !.out = IF h.some THEN out1 \o h.text ELSE out1]

heading_content(n, inner, out1, ctx, env) ==
    IF Trim(inner.out) = <<>> THEN [inner EXCEPT !.out = out1]
    ELSE heading_emit(
             heading_output(inner,
                 push_heading(<<>>, ctx, env.o, HeadingLevel(n.name),
                              normalize_heading_text(Trim(inner.out))), env),
             out1)

walk_heading(sibs, i, st, ctx, env) ==
    heading_content(sibs[i],
        Collect(sibs[i], st,
            [ctx EXCEPT !.in_heading = TRUE, !.convert_as_inline = TRUE,
                        !.heading_allow_inline_images =
                            heading_allows_inline_images(sibs[i].name,
                                                         env.o.keep_inline_images_in)],
            env),
        heading_leading_sep(st.out, ctx), ctx, env)

\* p: the separator ahead of the paragraph
paragraph_leading_sep(out, ctx, o) ==
    LET is_table_continuation ==
            /\ ctx.in_table_cell
            /\ out # <<>>
            /\ ~EndsWith(out, <<"|">>)
            /\ ~EndsWith(out, <<"<", "b", "r", ">">>)
        is_list_continuation ==
            /\ ctx.in_list_item
            /\ out # <<>>
            /\ ~EndsWith(out, <<"*", " ">>)
            /\ ~EndsWith(out, <<"-", " ">>)
            /\ ~EndsWith(out, <<".", " ">>)
        after_code_block == EndsWith(out, <<BT, BT, BT, "\n">>)
        needs_leading_sep ==
            /\ ~ctx.in_table_cell
            /\ ~ctx.in_list_item
            /\ ~ctx.convert_as_inline
            /\ ctx.blockquote_depth = 0
            /\ out # <<>>
            /\ ~EndsWith(out, NLNL)
            /\ ~after_code_block
    IN  IF is_table_continuation
        THEN trim_trailing_whitespace(out) \o hard_break(o)
        ELSE IF is_list_continuation
        THEN add_list_continuation_indent(out, ctx.list_depth, TRUE, o)
        ELSE IF needs_leading_sep
        THEN trim_trailing_whitespace(out) \o NLNL
        ELSE out

\* the children of a p: blank text between two empty inline elements is
\* skipped
WalkFromP(cs, i, st, ctx, env) ==
    IF i > Len(cs) THEN st
    ELSE LET skip ==
                /\ IsRaw(cs[i]) /\ Trim(cs[i].text) = <<>>
                /\ i > 1 /\ i < Len(cs)
                /\ is_empty_inline_element(cs[i - 1])
                /\ is_empty_inline_element(cs[i + 1])
         IN  WalkFromP(cs, i + 1,
                 IF skip THEN st ELSE WalkNode(cs, i, st, ctx, env), ctx, env)

\* the end of a p: st2 is the walker's state past the children
paragraph_end(st2, content_start_pos, ctx) ==
    IF Len(st2.out) > content_start_pos /\ ~ctx.convert_as_inline /\ ~ctx.in_table_cell
    THEN Push(st2, NLNL)
    ELSE st2

walk_p(sibs, i, st, ctx, env) ==
    paragraph_end(
        WalkFromP(sibs[i].children, 1,
            [st EXCEPT !.out = paragraph_leading_sep(@, ctx, env.o)],
            [ctx EXCEPT !.in_paragraph = TRUE, !.anc = Append(@, sibs[i].name)], env),
        Len(st.out), ctx)

\* what visit_strong makes of the element: [some, text]
strong_output(st, n, env) ==
    LET r == env.v.res["visit_strong"]
    IN  IF ~env.v.on THEN [st |-> st, some |-> FALSE, text |-> <<>>]
        ELSE LET st1 == Visited(st, "visit_strong", env)
             IN  CASE r = "Custom" -> [st |-> st1, some |-> TRUE, text |-> CustomText]
                   [] r = "Skip" -> [st |-> st1, some |-> TRUE, text |-> <<>>]
                   [] r = "PreserveHtml" ->
                        [st |-> st1, some |-> TRUE, text |-> serialize_node(n)]
                   [] r = "Error" ->
                        [st |-> record_visitor_error(st1, "visit_strong"),
                         some |-> FALSE, text |-> <<>>]
                   [] OTHER -> [st |-> st1, some |-> FALSE, text |-> <<>>]

\* strong, b rendered with its markers whatever encloses it
strong_never_flattened(out, content, ctx, o) ==
    LET c == chomp_inline(content)
        sym == <<o.strong_em_symbol, o.strong_em_symbol>>
    IN  IF Trim(content) # <<>>
        THEN append_inline_suffix(out \o c.prefix \o sym \o c.trimmed \o sym,
                                  c.suffix)
        ELSE IF content # <<>>
        THEN append_inline_suffix(out \o c.prefix, c.suffix)
        ELSE out

\* strong, b: the default rendering of the collected content
strong_default(out, content, ctx, o) ==
    LET c == chomp_inline(content)
        sym == <<o.strong_em_symbol, o.strong_em_symbol>>
    IN  IF Trim(content) # <<>>
        THEN append_inline_suffix(
                 out \o c.prefix
                     \o (IF ctx.in_strong THEN c.trimmed ELSE sym \o c.trimmed \o sym),
                 c.suffix)
        ELSE IF content # <<>>
        THEN append_inline_suffix(out \o c.prefix, c.suffix)
        ELSE out

\* strong, b once the children are walked: s is the visitor's answer
strong_emit(s, out, content, ctx, o) ==
    [s.st EXCEPT !.out =
        IF s.some THEN out \o s.text ELSE strong_default(out, content, ctx, o)]

strong_content(n, inner, out, ctx, env) ==
    strong_emit(strong_output(inner, n, env), out, inner.out, ctx, env.o)

walk_strong(sibs, i, st, ctx, env) ==
    IF ctx.in_code
    THEN WalkFrom(sibs[i].children, 1, st,
                  [ctx EXCEPT !.anc = Append(@, sibs[i].name)], env)
    ELSE strong_content(sibs[i],
             WalkFrom(sibs[i].children, 1, [st EXCEPT !.out = <<>>],
                 [ctx EXCEPT !.inline_depth = @ + 1, !.in_strong = TRUE,
                             !.anc = Append(@, sibs[i].name)], env),
             st.out, ctx, env)

\* what visit_emphasis makes of the element: [some, text]
em_output(st, n, env) ==
    LET r == env.v.res["visit_emphasis"]
    IN  IF ~env.v.on THEN [st |-> st, some |-> FALSE, text |-> <<>>]
        ELSE LET st1 == Visited(st, "visit_emphasis", env)
             IN  CASE r = "Custom" -> [st |-> st1, some |-> TRUE, text |-> CustomText]
                   [] r = "Skip" -> [st |-> st1, some |-> TRUE, text |-> <<>>]
                   [] r = "PreserveHtml" ->
                        [st |-> st1, some |-> TRUE, text |-> serialize_node(n)]
                   [] r = "Error" ->
                        [st |-> record_visitor_error(st1, "visit_emphasis"),
                         some |-> FALSE, text |-> <<>>]
                   [] OTHER -> [st |-> st1, some |-> FALSE, text |-> <<>>]

Caret == <<"c", "a", "r", "e", "t">>

\* em, i: the default rendering of the collected content
em_default(out, content, n, o) ==
    LET c == chomp_inline(content)
        sym == <<o.strong_em_symbol>>
    IN  IF Trim(content) # <<>>
        THEN append_inline_suffix(out \o c.prefix \o sym \o c.trimmed \o sym,
                                  c.suffix)
        ELSE IF content # <<>>
        THEN append_inline_suffix(out \o c.prefix, c.suffix)
        ELSE IF n.attrs.class # <<>>
        THEN IF (\E k \in 1..Len(n.attrs.class) :
                    Contains(n.attrs.class[k].rest, Caret))
                /\ ~EndsWith(out, <<" ">>)
             THEN out \o <<" ", ">", " ">>
             ELSE out
        ELSE out

\* em, i once the children are walked: s is the visitor's answer
em_emit(s, out, content, n, o) ==
    [s.st EXCEPT !.out =
        IF s.some THEN out \o s.text ELSE em_default(out, content, n, o)]

em_content(n, inner, out, env) ==
    em_emit(em_output(inner, n, env), out, inner.out, n, env.o)

walk_em(sibs, i, st, ctx, env) ==
    IF ctx.in_code
    THEN WalkFrom(sibs[i].children, 1, st,
                  [ctx EXCEPT !.anc = Append(@, sibs[i].name)], env)
    ELSE em_content(sibs[i],
             WalkFrom(sibs[i].children, 1, [st EXCEPT !.out = <<>>],
                 [ctx EXCEPT !.inline_depth = @ + 1,
                             !.anc = Append(@, sibs[i].name)], env),
             st.out, env)

MAX_LINK_LABEL_LEN == 512

Mailto == <<"m", "a", "i", "l", "t", "o", ":">>

\* a: the autolink test and what an autolink pushes
is_autolink(href, raw_text, o) ==
    /\ o.autolinks
    /\ ~o.default_title
    /\ href # <<>>
    /\ \/ raw_text = href
       \/ (StartsWith(href, Mailto) /\ raw_text = SubSeq(href, 8, Len(href)))

autolink_href_always(href, raw_text) == <<"<">> \o href \o <<">">>

autolink_text(href, raw_text) ==
    <<"<">>
    \o (IF StartsWith(href, Mailto) /\ raw_text = SubSeq(href, 8, Len(href))
        THEN raw_text ELSE href)
    \o <<">">>

\* the label of an anchor with a block child: each child is walked into a
\* buffer of its own, and the buffers are joined
link_block_label(cs, k, st, ctx, env) ==
    IF k > Len(cs) THEN st
    ELSE LET content == st.out
             c == WalkNode(cs, k, [st EXCEPT !.out = <<>>], ctx, env)
             child_buf == c.out
             gap == /\ Trim(child_buf) # <<>>
                    /\ content # <<>>
                    /\ ~IsWs(content[Len(content)])
                    /\ ~IsWs(Head(child_buf))
         IN  link_block_label(cs, k + 1,
                 [c EXCEPT !.out = content \o (IF gap THEN <<" ">> ELSE <<>>) \o child_buf],
                 ctx, env)

\* what visit_link makes of the link: [some, text]
link_output(st, n, default, env) ==
    LET r == env.v.res["visit_link"]
    IN  IF ~env.v.on THEN [st |-> st, some |-> TRUE, text |-> default]
        ELSE LET st1 == Visited(st, "visit_link", env)
             IN  CASE r = "Custom" -> [st |-> st1, some |-> TRUE, text |-> CustomText]
                   [] r = "Skip" -> [st |-> st1, some |-> FALSE, text |-> <<>>]
                   [] r = "Error" ->
                        [st |-> record_visitor_error(st1, "visit_link"),
                         some |-> FALSE, text |-> <<>>]
                   [] r = "PreserveHtml" ->
                        [st |-> st1, some |-> TRUE, text |-> serialize_node(n)]
                   [] OTHER -> [st |-> st1, some |-> TRUE, text |-> default]

\* the label of a link: the first non-empty one of the walked label, the
\* normalized raw text and, for an anchor with children, the href
link_label_fallback(label1, n, raw_text) ==
    IF label1 # <<>> THEN label1
    ELSE IF raw_text # <<>> /\ normalize_link_label(raw_text) # <<>>
    THEN normalize_link_label(raw_text)
    ELSE IF n.attrs.href # <<>> /\ n.children # <<>> THEN n.attrs.href
    ELSE <<>>

\* "..." is the one ellipsis character
link_label_truncated(label) ==
    IF Len(label) > MAX_LINK_LABEL_LEN
    THEN SubSeq(label, 1, MAX_LINK_LABEL_LEN) \o <<"...">>
    ELSE label

\* the label of a link from what walking the children wrote
link_label(n, cl, walked, raw_text) ==
    link_label_truncated(
        link_label_fallback(
            IF cl.saw_block /\ Trim(walked) = <<>>
            THEN (IF normalize_link_label(cl.inline_label) # <<>>
                  THEN normalize_link_label(cl.inline_label)
                  ELSE normalize_link_label(normalize_whitespace(get_text_content(n))))
            ELSE IF normalize_link_label(walked) = <<>> /\ cl.saw_block
            THEN normalize_link_label(normalize_whitespace(get_text_content(n)))
            ELSE normalize_link_label(walked),
            n, raw_text))

link_emit(l, out) == [l.st EXCEPT !.out = IF l.some THEN out \o l.text ELSE out]

link_markdown(label, href, o) ==
    append_markdown_link(<<>>, escape_link_label(label), href, label, o)

\* the link once its children are walked: inner is the walk's result
link_content(n, inner, out, raw_text, env) ==
    link_emit(
        link_output(inner, n,
            link_markdown(link_label(n, collect_link_label_text(n.children),
                                     inner.out, raw_text),
                          n.attrs.href, env.o),
            env),
        out)

\* the children of a link walked into the label buffer
link_children(n, saw_block, st, ctx, env) ==
    IF saw_block
    THEN link_block_label(n.children, 1, [st EXCEPT !.out = <<>>],
             [ctx EXCEPT !.inline_depth = @ + 1, !.convert_as_inline = TRUE,
                         !.anc = Append(@, n.name)], env)
    ELSE WalkFrom(n.children, 1, [st EXCEPT !.out = <<>>],
             [ctx EXCEPT !.inline_depth = @ + 1, !.anc = Append(@, n.name)], env)

\* a with an href, past the autolink and single-heading cases
walk_link(n, st, ctx, raw_text, env) ==
    link_content(n,
        link_children(n, collect_link_label_text(n.children).saw_block, st, ctx, env),
        st.out, raw_text, env)

\* the heading child walked: a non-empty text becomes the label of a link
\* emitted as a heading
link_heading_content(n, k, h, st, ctx, raw_text, env) ==
    IF Trim(h.out) # <<>>
    THEN [h EXCEPT !.out =
                push_heading(st.out, ctx, env.o, HeadingLevel(n.children[k].name),
                    append_markdown_link(<<>>, escape_link_label(Trim(h.out)),
                                         n.attrs.href, raw_text, env.o)),
             !.early = TRUE]
    ELSE walk_link(n, [h EXCEPT !.out = st.out], ctx, raw_text, env)

\* a whose single child is a heading
walk_link_heading(n, k, st, ctx, raw_text, env) ==
    link_heading_content(n, k,
        WalkNode(n.children, k, [st EXCEPT !.out = <<>>],
            [ctx EXCEPT !.in_heading = TRUE, !.convert_as_inline = TRUE,
                        !.heading_allow_inline_images =
                            heading_allows_inline_images(n.children[k].name,
                                                         env.o.keep_inline_images_in),
                        !.anc = Append(@, n.name)], env),
        st, ctx, raw_text, env)

\* a with an href: raw_text is the visible text, normalized and trimmed
walk_href(n, st, ctx, raw_text, env) ==
    IF is_autolink(n.attrs.href, raw_text, env.o)
    THEN [st EXCEPT !.out = @ \o autolink_text(n.attrs.href, raw_text),
                    !.early = TRUE]
    ELSE IF find_single_heading_child(n) # 0
    THEN walk_link_heading(n, find_single_heading_child(n), st, ctx, raw_text, env)
    ELSE walk_link(n, st, ctx, raw_text, env)

walk_a(sibs, i, st, ctx, env) ==
    IF ~sibs[i].attrs.has_href
    THEN WalkFrom(sibs[i].children, 1, st,
                  [ctx EXCEPT !.anc = Append(@, sibs[i].name)], env)
    ELSE walk_href(sibs[i], st, ctx,
                   Trim(normalize_whitespace(get_text_content(sibs[i]))), env)

\* br
\* br appending its hard break whatever the buffer ends with
walk_br_always_hard_break(out, ctx, o) ==
    IF ctx.in_heading THEN trim_trailing_whitespace(out) \o <<" ", " ">>
    ELSE out \o hard_break(o)

walk_br(out, ctx, o) ==
    IF ctx.in_heading THEN trim_trailing_whitespace(out) \o <<" ", " ">>
    ELSE IF out = <<>> \/ EndsWith(out, <<"\n">>) THEN out \o <<"\n">>
    ELSE out \o hard_break(o)

\* the last line of the buffer that is not blank, if any
LastNonBlankLine(out) ==
    LET ls == Lines(out)
        ks == {k \in 1..Len(ls) : Trim(ls[k]) # <<>>}
    IN  IF ks = {} THEN <<>>
        ELSE ls[CHOOSE k \in ks : \A j \in ks : j <= k]

\* hr
walk_hr(out, prev_tag, ctx) ==
    LET last_line_is_blockquote ==
            StartsWith(TrimStart(LastNonBlankLine(out)), <<">">>)
        needs_blank_line ==
            ~ctx.in_paragraph /\ prev_tag # "blockquote" /\ ~last_line_is_blockquote
        t == trim_trailing_whitespace(out)
        sep == IF out = <<>> THEN out
               ELSE IF prev_tag = "blockquote" /\ EndsWith(out, NLNL)
               THEN SubSeq(out, 1, Len(out) - 1)
               ELSE IF ctx.in_paragraph \/ ~needs_blank_line
               THEN (IF ~EndsWith(out, <<"\n">>) THEN out \o <<"\n">> ELSE out)
               ELSE IF EndsWith(t, <<"\n">>)
               THEN (IF ~EndsWith(t, NLNL) THEN t \o <<"\n">> ELSE t)
               ELSE t \o NLNL
    IN  sep \o <<"-", "-", "-", "\n">>

\* div: the separator ahead of the block
div_leading_sep(out, ctx, o) ==
    LET is_table_continuation ==
            /\ ctx.in_table_cell
            /\ out # <<>>
            /\ ~EndsWith(out, <<"|">>)
            /\ ~EndsWith(out, <<"<", "b", "r", ">">>)
        is_list_continuation ==
            /\ ctx.in_list_item
            /\ out # <<>>
            /\ ~EndsWith(out, <<"*", " ">>)
            /\ ~EndsWith(out, <<"-", " ">>)
            /\ ~EndsWith(out, <<".", " ">>)
        needs_leading_sep ==
            /\ ~ctx.in_table_cell
            /\ ~ctx.in_list_item
            /\ ~ctx.convert_as_inline
            /\ out # <<>>
            /\ ~EndsWith(out, NLNL)
    IN  IF is_table_continuation
        THEN trim_trailing_whitespace(out) \o hard_break(o)
        ELSE IF is_list_continuation
        THEN add_list_continuation_indent(out, ctx.list_depth, FALSE, o)
        ELSE IF needs_leading_sep
        THEN trim_trailing_whitespace(out) \o NLNL
        ELSE out

\* div: the buffer after the children, when they added content
div_trailing_sep(out, content_start_pos, is_list_continuation, ctx) ==
    LET o1 == IF /\ content_start_pos = 0
                 /\ StartsWith(out, <<"\n">>)
                 /\ ~StartsWith(out, NLNL)
              THEN Tail(out) ELSE out
        t == trim_trailing_whitespace(o1)
    IN  IF ctx.in_table_cell THEN t
        ELSE IF ctx.in_list_item
        THEN IF is_list_continuation
             THEN (IF ~EndsWith(t, <<"\n">>) THEN t \o <<"\n">> ELSE t)
             ELSE IF EndsWith(t, NLNL) THEN t
             ELSE IF EndsWith(t, <<"\n">>) THEN t \o <<"\n">>
             ELSE t \o NLNL
        ELSE IF ~ctx.convert_as_inline
        THEN IF EndsWith(t, NLNL) THEN t
             ELSE IF EndsWith(t, <<"\n">>) THEN t \o <<"\n">>
             ELSE t \o NLNL
        ELSE t

\* the end of a div: st2 is the walker's state past the children, out the
\* buffer the handler was entered with
div_end(st2, out, ctx) ==
    IF ctx.convert_as_inline THEN [st2 EXCEPT !.early = TRUE]
    ELSE IF Len(st2.out) > Len(out)
    THEN [st2 EXCEPT !.out =
            div_trailing_sep(@, Len(out),
                /\ ctx.in_list_item
                /\ out # <<>>
                /\ ~EndsWith(out, <<"*", " ">>)
                /\ ~EndsWith(out, <<"-", " ">>)
                /\ ~EndsWith(out, <<".", " ">>),
                ctx)]
    ELSE st2

walk_div(sibs, i, st, ctx, env) ==
    div_end(
        WalkChildren(sibs[i],
            IF ctx.convert_as_inline THEN st
            ELSE [st EXCEPT !.out = div_leading_sep(@, ctx, env.o)],
            ctx, env),
        st.out, ctx)

\* span; the model's spans carry no ocrx_word class
walk_span(sibs, i, st, ctx, env) ==
    LET n == sibs[i]
        out == st.out
        out1 == IF /\ ~ctx.in_code
                   /\ env.o.whitespace_mode = "Normalized"
                   /\ EndsWith(out, <<"\n">>)
                   /\ ~EndsWith(out, NLNL)
                THEN SubSeq(out, 1, Len(out) - 1)
                ELSE out
    IN  WalkChildren(n, [st EXCEPT !.out = out1], ctx, env)

\* head: its children are walked only when one of them is body-like
walk_head(sibs, i, st, ctx, env) ==
    LET n == sibs[i]
        has_body_like ==
            \E k \in 1..Len(n.children) :
                /\ IsTag(n.children[k])
                /\ n.children[k].name \in
                       {"body", "main", "article", "section", "div", "p"}
    IN  IF has_body_like THEN WalkChildren(n, st, ctx, env) ELSE st

\* any other element: its children, and whitespace-only output collapsed
default_fixup(out, len_before, had_trailing_space) ==
    IF Len(out) > len_before
    THEN LET added_content == SubSeq(out, len_before + 1, Len(out))
             is_code_block ==
                \/ StartsWith(added_content, <<" ", " ", " ", " ">>)
                \/ StartsWith(added_content, <<BT, BT, BT>>)
                \/ StartsWith(added_content, <<"~", "~", "~">>)
         IN  IF Trim(added_content) = <<>> /\ ~is_code_block
             THEN SubSeq(out, 1, len_before)
                  \o (IF ~had_trailing_space /\ Contains(added_content, <<" ">>)
                      THEN <<" ">> ELSE <<>>)
             ELSE out
    ELSE out

default_end(st2, out) ==
    [st2 EXCEPT !.out = default_fixup(@, Len(out), EndsWith(out, <<" ">>))]

walk_default(sibs, i, st, ctx, env) ==
    default_end(WalkChildren(sibs[i], st, ctx, env), st.out)

\* article, section, nav, aside, header, footer, main: inner is the
\* result of walking the children, into the buffer in inline mode and into
\* a buffer of their own otherwise
section_end(inner, out, ctx) ==
    IF ctx.convert_as_inline THEN [inner EXCEPT !.early = TRUE]
    ELSE IF Trim(inner.out) = <<>> THEN [inner EXCEPT !.out = out, !.early = TRUE]
    ELSE [inner EXCEPT !.out =
            (IF out # <<>> /\ ~EndsWith(out, NLNL) THEN out \o NLNL ELSE out)
            \o @
            \o (IF EndsWith(@, <<"\n">>) /\ ~EndsWith(@, NLNL) THEN <<"\n">>
                ELSE IF ~EndsWith(@, <<"\n">>) THEN NLNL
                ELSE <<>>)]

walk_section(sibs, i, st, ctx, env) ==
    section_end(
        WalkChildren(sibs[i],
            IF ctx.convert_as_inline THEN st ELSE [st EXCEPT !.out = <<>>], ctx, env),
        st.out, ctx)

\* str::lines: the lines of s, without a last empty one
\* what visit_code_inline makes of the element: [some, text]
code_output(st, n, env) ==
    LET r == env.v.res["visit_code_inline"]
    IN  IF ~env.v.on THEN [st |-> st, some |-> FALSE, text |-> <<>>]
        ELSE LET st1 == Visited(st, "visit_code_inline", env)
             IN  CASE r = "Custom" -> [st |-> st1, some |-> TRUE, text |-> CustomText]
                   [] r = "Skip" -> [st |-> st1, some |-> TRUE, text |-> <<>>]
                   [] r = "PreserveHtml" ->
                        [st |-> st1, some |-> TRUE, text |-> serialize_node(n)]
                   [] r = "Error" ->
                        [st |-> record_visitor_error(st1, "visit_code_inline"),
                         some |-> FALSE, text |-> <<>>]
                   [] OTHER -> [st |-> st1, some |-> FALSE, text |-> <<>>]

RECURSIVE max_consecutive(_, _, _)
\* the fold over the characters: (max, current)
max_consecutive(s, max, current) ==
    IF s = <<>> THEN max
    ELSE IF Head(s) = BT
    THEN max_consecutive(Tail(s), IF current + 1 > max THEN current + 1 ELSE max,
                         current + 1)
    ELSE max_consecutive(Tail(s), max, 0)

needs_delimiter_spaces(trimmed) ==
    LET starts_with_space == trimmed # <<>> /\ Head(trimmed) = " "
        ends_with_space == trimmed # <<>> /\ trimmed[Len(trimmed)] = " "
        starts_with_backtick == trimmed # <<>> /\ Head(trimmed) = BT
        ends_with_backtick == trimmed # <<>> /\ trimmed[Len(trimmed)] = BT
        all_spaces == \A k \in 1..Len(trimmed) : trimmed[k] = " "
    IN  \/ all_spaces
        \/ starts_with_backtick
        \/ ends_with_backtick
        \/ (starts_with_space /\ ends_with_space /\ Contains(trimmed, <<BT>>))

num_backticks(trimmed) ==
    IF Contains(trimmed, <<BT>>)
    THEN (IF max_consecutive(trimmed, 0, 0) = 1 THEN 2 ELSE 1)
    ELSE 1

\* code: the default rendering of the collected content
code_default(out, trimmed) ==
    LET ticks == Repeat(<<BT>>, num_backticks(trimmed))
        sp == IF needs_delimiter_spaces(trimmed) THEN <<" ">> ELSE <<>>
    IN  out \o ticks \o sp \o trimmed \o sp \o ticks

code_emit(c, out, content) ==
    [c.st EXCEPT !.out =
        IF c.some THEN out \o c.text ELSE code_default(out, content)]

\* code once its children are walked: inner is the result of the walk
code_content(n, inner, out, env) ==
    IF Trim(inner.out) = <<>> THEN [inner EXCEPT !.out = out]
    ELSE code_emit(code_output(inner, n, env), out, inner.out)

walk_code(sibs, i, st, ctx, env) ==
    IF ctx.in_code
    THEN WalkChildren(sibs[i], st, [ctx EXCEPT !.in_code = TRUE], env)
    ELSE code_content(sibs[i],
                      Collect(sibs[i], st, [ctx EXCEPT !.in_code = TRUE], env),
                      st.out, env)

RustLines(s) ==
    LET ls == Lines(s)
    IN  IF ls[Len(ls)] = <<>> THEN SubSeq(ls, 1, Len(ls) - 1) ELSE ls

LeadingIndent(line) == Len(line) - Len(TrimStartMatches(line, {" ", "\t"}))

\* text::dedent_code_block: the longest common leading whitespace of the
\* non-empty lines is removed from every line
dedent_code_block(s) ==
    LET ls == Lines(s)
        ks == {k \in 1..Len(ls) : Trim(ls[k]) # <<>>}
        m == IF ks = {} THEN 0
             ELSE LeadingIndent(ls[CHOOSE k \in ks :
                      \A j \in ks : LeadingIndent(ls[k]) <= LeadingIndent(ls[j])])
    IN  JoinNl([k \in 1..Len(ls) |->
            IF LeadingIndent(ls[k]) >= m THEN SubSeq(ls[k], m + 1, Len(ls[k]))
            ELSE TrimStartMatches(ls[k], {" ", "\t"})])

\* the x of the first class token language-x or lang-x; <<>> for None
class_language(tokens) ==
    LET ks == {k \in 1..Len(tokens) : tokens[k].prefix \in {"language-", "lang-"}}
    IN  IF ks = {} THEN [some |-> FALSE, lang |-> <<>>]
        ELSE [some |-> TRUE,
              lang |-> tokens[CHOOSE k \in ks : \A j \in ks : k <= j].rest]

\* pre: the language of the pre's class, else of its first code child's
pre_language(n) ==
    LET own == class_language(n.attrs.class)
        ks == {k \in 1..Len(n.children) :
                  IsTag(n.children[k]) /\ n.children[k].name = "code"}
    IN  IF own.some THEN own
        ELSE IF ks = {} THEN own
        ELSE class_language(n.children[CHOOSE k \in ks : \A j \in ks : k <= j].attrs.class)

\* pre: the content as it is emitted
pre_processed_content(content, o) ==
    LET trailing_newlines == Len(content) - Len(TrimEndMatches(content, {"\n"}))
        leading_newlines == Len(content) - Len(TrimStartMatches(content, {"\n"}))
        core == TrimStartMatches(TrimEndMatches(content, {"\n"}), {"\n"})
        is_whitespace_only == Trim(core) = <<>>
        core_text == dedent_code_block(core)
    IN  IF o.whitespace_mode = "Strict" THEN content
        ELSE IF is_whitespace_only
        THEN Repeat(<<"\n">>, leading_newlines) \o core_text
             \o Repeat(<<"\n">>, trailing_newlines)
        ELSE core_text \o Repeat(<<"\n">>, trailing_newlines)

\* pre: the separator ahead of the code block
code_block_leading_sep(out, ctx) ==
    IF ~ctx.convert_as_inline /\ out # <<>> /\ ~EndsWith(out, NLNL)
    THEN IF EndsWith(out, <<"\n">>) THEN out \o <<"\n">> ELSE out \o NLNL
    ELSE out

\* pre: the block with every line indented, the empty ones too
code_block_indent_every_line(out, processed_content, ctx, o) ==
    LET out1 == code_block_leading_sep(out, ctx)
    IN  IF o.code_block_style = "Indented"
        THEN LET ls == RustLines(processed_content)
             IN  out1
                 \o JoinNl([k \in 1..Len(ls) |-> <<" ", " ", " ", " ">> \o ls[k]])
                 \o NLNL
        ELSE LET fence == IF o.code_block_style = "Backticks"
                          THEN <<BT, BT, BT>> ELSE <<"~", "~", "~">>
             IN  out1 \o fence \o o.code_language \o <<"\n">>
                 \o processed_content \o <<"\n">> \o fence \o <<"\n">>

\* pre: the block in the code block style
code_block_default(out, processed_content, ctx, o) ==
    LET out1 == code_block_leading_sep(out, ctx)
    IN  IF o.code_block_style = "Indented"
        THEN LET ls == RustLines(processed_content)
             IN  out1
                 \o JoinNl([k \in 1..Len(ls) |->
                        IF ls[k] = <<>> THEN <<>>
                        ELSE <<" ", " ", " ", " ">> \o ls[k]])
                 \o NLNL
        ELSE LET fence == IF o.code_block_style = "Backticks"
                          THEN <<BT, BT, BT>> ELSE <<"~", "~", "~">>
             IN  out1 \o fence \o o.code_language \o <<"\n">>
                 \o processed_content \o <<"\n">> \o fence \o <<"\n">>

\* what visit_code_block makes of the block: [some, text]
code_block_output(st, n, env) ==
    LET r == env.v.res["visit_code_block"]
    IN  IF ~env.v.on THEN [st |-> st, some |-> FALSE, text |-> <<>>]
        ELSE LET st1 == Visited(st, "visit_code_block", env)
             IN  CASE r = "Custom" -> [st |-> st1, some |-> TRUE, text |-> CustomText]
                   [] r = "Skip" -> [st |-> st1, some |-> TRUE, text |-> <<>>]
                   [] r = "PreserveHtml" ->
                        [st |-> st1, some |-> TRUE, text |-> serialize_node(n)]
                   [] r = "Error" ->
                        [st |-> record_visitor_error(st1, "visit_code_block"),
                         some |-> FALSE, text |-> <<>>]
                   [] OTHER -> [st |-> st1, some |-> FALSE, text |-> <<>>]

code_block_emit(c, out, content, ctx, o) ==
    [c.st EXCEPT !.out =
        IF c.some THEN out \o c.text
        ELSE code_block_default(out, pre_processed_content(content, o), ctx, o)]

\* pre once its children are walked: inner is the result of the walk
pre_content(n, inner, out, ctx, env) ==
    IF inner.out = <<>> THEN [inner EXCEPT !.out = out]
    ELSE code_block_emit(code_block_output(inner, n, env), out, inner.out, ctx, env.o)

walk_pre(sibs, i, st, ctx, env) ==
    pre_content(sibs[i], Collect(sibs[i], st, [ctx EXCEPT !.in_code = TRUE], env),
                st.out, ctx, env)

(***************************************************************************)
(* walk_node.                                                              *)
(***************************************************************************)
(***************************************************************************)
(* Lists: li, menu, ul, ol.                                                *)
(***************************************************************************)
RECURSIVE Digits(_)
\* format!("{}", n)
Digits(n) ==
    LET d == <<"0", "1", "2", "3", "4", "5", "6", "7", "8", "9">>[(n % 10) + 1]
    IN  IF n < 10 THEN <<d>> ELSE Digits(n \div 10) \o <<d>>

\* li: the indent of the item's line
li_indent(out, ctx, o) ==
    IF ctx.list_depth > 0
    THEN out \o (IF o.list_indent_type = "Tabs"
                 THEN Repeat(<<"\t">>, ctx.list_depth)
                 ELSE Repeat(<<" ">>, ctx.list_depth * o.list_indent_width))
    ELSE out

li_has_block_children(n) ==
    \E k \in 1..Len(n.children) :
        IsTag(n.children[k])
        /\ n.children[k].name \in {"p", "div", "blockquote", "pre", "table", "hr", "dl"}

RECURSIVE find_checkbox(_)
\* the first checkbox input at or under the node, in document order: path is
\* the chain of child indexes that leads to it
find_checkbox(n) ==
    IF ~IsTag(n) THEN [found |-> FALSE, checked |-> FALSE, path |-> <<>>]
    ELSE IF n.name = "input" /\ n.attrs.checkbox # ""
    THEN [found |-> TRUE, checked |-> n.attrs.checkbox = "checked", path |-> <<>>]
    ELSE LET ks == {k \in 1..Len(n.children) : find_checkbox(n.children[k]).found}
         IN  IF ks = {} THEN [found |-> FALSE, checked |-> FALSE, path |-> <<>>]
             ELSE LET k == CHOOSE k \in ks : \A j \in ks : k <= j
                      r == find_checkbox(n.children[k])
                  IN  [r EXCEPT !.path = <<k>> \o @]

RECURSIVE render_li_content(_, _, _, _, _, _)
\* li of a task list: the children are rendered without the checkbox; cb is
\* the path from cs to the checkbox, <<>> when it is not under cs
render_li_content(cs, k, cb, st, ctx, env) ==
    IF k > Len(cs) THEN st
    ELSE render_li_content(cs, k + 1, cb,
             IF cb = <<k>> THEN st
             ELSE IF cb # <<>> /\ Head(cb) = k
             THEN render_li_content(cs[k].children, 1, Tail(cb), st, ctx, env)
             ELSE WalkNode(cs, k, st, ctx, env),
             ctx, env)

\* li: the marker of an item that is not a task
li_marker(out, ctx, o) ==
    IF ctx.in_table_cell THEN out
    ELSE IF ctx.in_ordered_list THEN out \o Digits(ctx.list_counter) \o <<".", " ">>
    ELSE LET bullet_index == IF ctx.ul_depth > 0 THEN ctx.ul_depth - 1 ELSE 0
         IN  out \o <<o.bullets[(bullet_index % Len(o.bullets)) + 1], " ">>

\* li: the end of the item's line
li_end(out, n, ctx) ==
    IF ctx.in_table_cell THEN out
    ELSE IF li_has_block_children(n) \/ ctx.loose_list \/ ctx.prev_item_had_blocks
    THEN (IF EndsWith(out, NLNL) THEN out
          ELSE IF EndsWith(out, <<"\n">>) THEN out \o <<"\n">> ELSE out \o NLNL)
    ELSE IF EndsWith(out, <<"\n">>) THEN out ELSE out \o <<"\n">>

\* the index after the last newline of the buffer
last_line_start(out) ==
    LET ks == {k \in 1..Len(out) : out[k] = "\n"}
    IN  IF ks = {} THEN 0 ELSE CHOOSE k \in ks : \A j \in ks : j <= k

\* li: visit_list_item on the item's last line; a result other than
\* Continue returns from the walker
li_visit(st, n, ctx, env) ==
    LET r == env.v.res["visit_list_item"]
        st1 == Visited(st, "visit_list_item", env)
        cut == SubSeq(st.out, 1, last_line_start(st.out))
        nl(out) == IF ~ctx.in_table_cell /\ ~EndsWith(out, <<"\n">>)
                   THEN out \o <<"\n">> ELSE out
    IN  CASE r = "Custom" -> [st1 EXCEPT !.out = nl(cut \o CustomText), !.early = TRUE]
          [] r = "Skip" -> [st1 EXCEPT !.out = cut, !.early = TRUE]
          [] r = "PreserveHtml" ->
                [st1 EXCEPT !.out = nl(cut \o serialize_node(n)), !.early = TRUE]
          [] r = "Error" ->
                [record_visitor_error(st1, "visit_list_item") EXCEPT !.early = TRUE]
          [] OTHER -> [st1 EXCEPT !.out = li_end(@, n, ctx)]

\* li that is not a task, once its children are walked
li_plain_end(inner, n, ctx, env) ==
    IF inner.panic THEN inner
    ELSE IF env.v.on
    THEN li_visit([inner EXCEPT !.out = trim_trailing_whitespace(@)], n, ctx, env)
    ELSE [inner EXCEPT !.out = li_end(trim_trailing_whitespace(@), n, ctx)]

\* li of a task list, once its children are rendered into task
li_task_end(task, out1, n, ctx) ==
    [task EXCEPT !.out = li_end(out1 \o <<" ">> \o Trim(task.out), n, ctx)]

li_task(cb, sibs, i, st, out0, li_ctx, ctx, env) ==
    li_task_end(
        render_li_content(sibs[i].children, 1, cb.path, [st EXCEPT !.out = <<>>],
                          li_ctx, env),
        out0 \o <<"-", " ">>
             \o (IF cb.checked THEN <<"[", "x", "]">> ELSE <<"[", " ", "]">>),
        sibs[i], ctx)

li_item(cb, sibs, i, st, out0, li_ctx, ctx, env) ==
    IF cb.found THEN li_task(cb, sibs, i, st, out0, li_ctx, ctx, env)
    ELSE IF ~ctx.in_table_cell /\ ~ctx.in_ordered_list /\ env.o.bullets = <<>>
    THEN Panic(st, RemainderByZero)
    ELSE li_plain_end(
             WalkFrom(sibs[i].children, 1,
                      [st EXCEPT !.out = li_marker(out0, ctx, env.o)], li_ctx, env),
             sibs[i], ctx, env)

walk_li(sibs, i, st, ctx, env) ==
    li_item(find_checkbox(sibs[i]), sibs, i, st, li_indent(st.out, ctx, env.o),
            [ctx EXCEPT !.in_list_item = TRUE, !.list_depth = @ + 1,
                        !.anc = Append(@, "li")],
            ctx, env)

\* menu: after the children
menu_end(st2, content_start, ctx) ==
    IF ~ctx.convert_as_inline /\ Len(st2.out) > content_start
    THEN [st2 EXCEPT !.out =
             IF EndsWith(@, NLNL) THEN @
             ELSE IF EndsWith(@, <<"\n">>) THEN @ \o <<"\n">> ELSE @ \o NLNL]
    ELSE IF ctx.convert_as_inline
    THEN [st2 EXCEPT !.out = TrimEndMatches(@, {"\n"})]
    ELSE st2

walk_menu(sibs, i, st, ctx, env) ==
    menu_end(
        WalkFrom(sibs[i].children, 1, st,
                 [ctx EXCEPT !.in_ordered_list = FALSE, !.list_counter = 0,
                             !.in_list = TRUE, !.anc = Append(@, "menu")],
                 [env EXCEPT !.o.bullets = <<"-">>]),
        Len(st.out), ctx)

\* list::utils (not part of the sources at hand): a list opens on a line of
\* its own, after a blank line outside a list and after a line end inside a
\* list item
add_list_leading_separator(out, ctx) ==
    IF ctx.in_table_cell \/ out = <<>> THEN out
    ELSE IF ~ctx.in_list
    THEN (IF EndsWith(out, NLNL) THEN out ELSE out \o NLNL)
    ELSE IF ctx.in_list_item /\ ~EndsWith(out, <<"\n">>)
    THEN trim_trailing_whitespace(out) \o <<"\n">>
    ELSE out

\* list::utils: the items of a list nested in an item are indented by the
\* item's list_depth, the items of any other list are not indented
calculate_list_nesting_depth(ctx) ==
    IF ctx.in_list_item THEN ctx.list_depth ELSE 0

\* list::utils: a list is loose if an item holds a block child or a blank
\* line separates two of its children
is_loose_list(n) ==
    \E k \in 1..Len(n.children) :
        \/ IsTag(n.children[k]) /\ n.children[k].name = "li"
           /\ li_has_block_children(n.children[k])
        \/ IsRaw(n.children[k]) /\ Trim(n.children[k].text) = <<>>
           /\ Contains(n.children[k].text, NLNL)

\* list::utils: a nested list ends its line
add_nested_list_trailing_separator(out, ctx) ==
    IF ~ctx.in_list_item \/ EndsWith(out, <<"\n">>) THEN out ELSE out \o <<"\n">>

RECURSIVE process_list_children(_, _, _, _, _, _, _, _, _, _)
\* list::utils: the children are walked in order, blank text skipped, each
\* under the list's context; an ordered list counts its items from start
process_list_children(cs, k, counter, prev, st, ctx, env, is_ordered, is_loose, nested_depth) ==
    IF k > Len(cs) THEN st
    ELSE IF IsRaw(cs[k]) /\ Trim(cs[k].text) = <<>>
    THEN process_list_children(cs, k + 1, counter, prev, st, ctx, env, is_ordered,
                               is_loose, nested_depth)
    ELSE process_list_children(cs, k + 1,
             IF IsTag(cs[k]) /\ cs[k].name = "li" THEN counter + 1 ELSE counter,
             IsTag(cs[k]) /\ cs[k].name = "li" /\ li_has_block_children(cs[k]),
             WalkNode(cs, k, st,
                 [ctx EXCEPT !.in_ordered_list = is_ordered,
                             !.list_counter = IF is_ordered THEN counter ELSE 0,
                             !.in_list = TRUE, !.list_depth = nested_depth,
                             !.ul_depth = IF is_ordered THEN @ ELSE @ + 1,
                             !.loose_list = is_loose,
                             !.prev_item_had_blocks = prev],
                 env),
             ctx, env, is_ordered, is_loose, nested_depth)

\* ul, ol: visit_list_end on output[list_output_start..]
list_end(st2, n, list_output_start, list_start_custom, env) ==
    IF list_output_start > Len(st2.out) THEN Panic(st2, ListSliceOutOfBounds)
    ELSE LET r == env.v.res["visit_list_end"]
             st3 == Visited(st2, "visit_list_end", env)
             head == SubSeq(st2.out, 1, list_output_start)
             children_output == SubSeq(st2.out, list_output_start + 1, Len(st2.out))
         IN  CASE r = "Continue" ->
                    [st3 EXCEPT !.out = head \o list_start_custom \o children_output]
               [] r = "Custom" ->
                    [st3 EXCEPT !.out = head \o list_start_custom \o children_output
                                             \o CustomText]
               [] r = "Skip" -> [st3 EXCEPT !.out = head]
               [] r = "PreserveHtml" -> [st3 EXCEPT !.out = head \o serialize_node(n)]
               [] OTHER ->
                    [record_visitor_error(st3, "visit_list_end") EXCEPT !.out = head]

\* ul, ol: past the children
list_children_end(st2, n, list_output_start, list_start_custom, ctx, env) ==
    IF st2.panic THEN st2
    ELSE IF env.v.on
    THEN list_end([st2 EXCEPT !.out = add_nested_list_trailing_separator(@, ctx)],
                  n, list_output_start, list_start_custom, env)
    ELSE [st2 EXCEPT !.out = add_nested_list_trailing_separator(@, ctx)]

\* ul, ol: the children, past visit_list_start
list_children(sibs, i, st1, list_start_custom, ctx, env) ==
    list_children_end(
        process_list_children(sibs[i].children, 1,
            IF sibs[i].name = "ol" /\ sibs[i].attrs.start >= 0
            THEN sibs[i].attrs.start ELSE 1,
            FALSE, st1, [ctx EXCEPT !.anc = Append(@, sibs[i].name)], env,
            sibs[i].name = "ol", is_loose_list(sibs[i]),
            calculate_list_nesting_depth(ctx)),
        sibs[i], Len(st1.out), list_start_custom, ctx, env)

\* ul, ol: visit_list_start, made past the leading separator
list_start(sibs, i, st0, ctx, env) ==
    LET r == env.v.res["visit_list_start"]
        st1 == Visited(st0, "visit_list_start", env)
    IN  CASE r = "Skip" -> [st1 EXCEPT !.early = TRUE]
          [] r = "PreserveHtml" ->
                [st1 EXCEPT !.out = @ \o serialize_node(sibs[i]), !.early = TRUE]
          [] r = "Error" ->
                [record_visitor_error(st1, "visit_list_start") EXCEPT !.early = TRUE]
          [] OTHER ->
                list_children(sibs, i, st1,
                              IF r = "Custom" THEN CustomText ELSE <<>>, ctx, env)

walk_list(sibs, i, st, ctx, env) ==
    IF env.v.on
    THEN list_start(sibs, i,
                    [st EXCEPT !.out = add_list_leading_separator(@, ctx)], ctx, env)
    ELSE list_children(sibs, i,
                       [st EXCEPT !.out = add_list_leading_separator(@, ctx)],
                       <<>>, ctx, env)




(***************************************************************************)
(* u.                                                                      *)
(***************************************************************************)
\* visit_underline: [st, walk]; the RefMut taken for the callback lives to
\* the end of the visitor block, the arms that walk the children included
u_visit(st, n, env) ==
    LET r == env.v.res["visit_underline"]
        st1 == Visited(st, "visit_underline", env)
    IN  IF ~env.v.on THEN [st |-> st, walk |-> TRUE]
        ELSE CASE r = "Custom" -> [st |-> Push(st1, CustomText), walk |-> FALSE]
               [] r = "Skip" -> [st |-> st1, walk |-> FALSE]
               [] r = "PreserveHtml" ->
                    [st |-> Push(st1, serialize_node(n)), walk |-> FALSE]
               [] r = "Error" ->
                    [st |-> [record_visitor_error(st1, "visit_underline")
                                EXCEPT !.borrowed = TRUE],
                     walk |-> TRUE]
               [] OTHER -> [st |-> [st1 EXCEPT !.borrowed = TRUE], walk |-> TRUE]

\* the end of the visitor block: the RefMut is dropped
u_end(st2, borrowed) == IF st2.panic THEN st2 ELSE [st2 EXCEPT !.borrowed = borrowed]

u_children(u, n, st, ctx, env) ==
    IF u.walk /\ ~u.st.panic THEN u_end(WalkChildren(n, u.st, ctx, env), st.borrowed)
    ELSE u.st

walk_u(sibs, i, st, ctx, env) == u_children(u_visit(st, sibs[i], env), sibs[i], st, ctx, env)

(***************************************************************************)
(* img.                                                                    *)
(***************************************************************************)
\* ![alt](src "title"), the title only when the attribute is there
image_markdown(n) ==
    <<"!", "[">> \o n.attrs.alt \o <<"]", "(">> \o n.attrs.src
        \o (IF n.attrs.has_title THEN <<" ", "\"">> \o n.attrs.title \o <<"\"">>
            ELSE <<>>)
        \o <<")">>

\* the alt text in every heading, whatever keep_inline_images_in holds
should_use_alt_text_in_every_heading(ctx) == ctx.convert_as_inline \/ ctx.in_heading

should_use_alt_text(ctx) ==
    LET keep_as_markdown == ctx.in_heading /\ ctx.heading_allow_inline_images
    IN  /\ ~keep_as_markdown
        /\ (ctx.convert_as_inline \/ (ctx.in_heading /\ ~ctx.heading_allow_inline_images))

image_default(n, ctx) ==
    IF should_use_alt_text(ctx) THEN n.attrs.alt ELSE image_markdown(n)

\* what visit_image makes of the element: [st, some, text]
image_output(st, n, ctx, env) ==
    LET r == env.v.res["visit_image"]
    IN  IF ~env.v.on THEN [st |-> st, some |-> TRUE, text |-> image_default(n, ctx)]
        ELSE LET st1 == Visited(st, "visit_image", env)
             IN  CASE r = "Custom" -> [st |-> st1, some |-> TRUE, text |-> CustomText]
                   [] r = "Skip" -> [st |-> st1, some |-> FALSE, text |-> <<>>]
                   [] r = "Error" ->
                        [st |-> record_visitor_error(st1, "visit_image"),
                         some |-> FALSE, text |-> <<>>]
                   [] r = "PreserveHtml" ->
                        [st |-> st1, some |-> TRUE, text |-> serialize_node(n)]
                   [] OTHER -> [st |-> st1, some |-> TRUE, text |-> image_default(n, ctx)]

\* the image is pushed unless skip_images is set
image_emit(img, o) ==
    IF ~o.skip_images /\ img.some THEN Push(img.st, img.text) ELSE img.st

walk_img(sibs, i, st, ctx, env) == image_emit(image_output(st, sibs[i], ctx, env), env.o)

(***************************************************************************)
(* table: block::table::handle_table and the table arm.                    *)
(***************************************************************************)
\* the rows of a table: its tr elements, those of thead, tbody and tfoot
\* included
RECURSIVE TableRows(_)
TableRows(cs) ==
    IF cs = <<>> THEN <<>>
    ELSE (IF IsTag(Head(cs)) /\ Head(cs).name = "tr" THEN <<Head(cs)>>
          ELSE IF IsTag(Head(cs)) /\ Head(cs).name \in {"thead", "tbody", "tfoot"}
          THEN TableRows(Head(cs).children)
          ELSE <<>>) \o TableRows(Tail(cs))

IsCell(c) == IsTag(c) /\ c.name \in {"th", "td"}

RowCells(tr) == SelectSeq(tr.children, IsCell)

\* a cell: its children are walked with in_table_cell set into a buffer of
\* the cell's own; vertical whitespace becomes spaces and the ends are trimmed
table_cell(cell, st, ctx, env) ==
    Collect(cell, st, [ctx EXCEPT !.in_table_cell = TRUE], env)

cell_text(content) == Trim(ReplaceNewlines(content))

\* a row "| a | b |"
RECURSIVE table_row(_, _, _, _, _, _)
table_row(cells, k, acc, st, ctx, env) ==
    IF k > Len(cells) THEN [st EXCEPT !.out = acc \o <<"\n">>]
    ELSE LET c == table_cell(cells[k], st, ctx, env)
         IN  table_row(cells, k + 1,
                       acc \o <<" ">> \o cell_text(c.out) \o <<" ", "|">>,
                       c, ctx, env)

\* the "| --- | --- |" line below the header row
separator_row(width) ==
    <<"|">> \o Concat([k \in 1..width |-> <<" ", "-", "-", "-", " ", "|">>]) \o <<"\n">>

RECURSIVE table_rows(_, _, _, _, _, _)
table_rows(rows, k, acc, st, ctx, env) ==
    IF k > Len(rows) THEN [st EXCEPT !.out = acc]
    ELSE LET r == table_row(RowCells(rows[k]), 1, <<"|">>, st, ctx, env)
         IN  table_rows(rows, k + 1,
                        acc \o r.out
                            \o (IF k = 1 THEN separator_row(Len(RowCells(rows[1])))
                                ELSE <<>>),
                        r, ctx, env)

\* handle_table: the result's out is table_output
handle_table(n, st, ctx, env) ==
    table_rows(TableRows(n.children), 1, <<>>, st,
               [ctx EXCEPT !.anc = Append(@, n.name)], env)

\* block::table::builder::indent_table_for_list: every line of the table
\* behind the list indent
indent_table_for_list(table_output, list_depth, o) ==
    LET unit == IF o.list_indent_type = "Tabs" THEN <<"\t">>
                ELSE Repeat(<<" ">>, o.list_indent_width)
        ls == Lines(table_output)
    IN  Concat([k \in 1..Len(ls) |->
            (IF ls[k] = <<>> THEN <<>> ELSE Repeat(unit, list_depth) \o ls[k])
            \o <<"\n">>])

\* the table arm: table_output is appended behind a blank line
table_end(t, out, ctx, o) ==
    LET table_output == t.out
        out1 == IF ctx.in_list_item
                THEN (IF ~StartsWith(table_output, <<"*">>)
                      THEN LET tr == trim_trailing_whitespace(out)
                           IN  IF tr # <<>> /\ ~EndsWith(tr, <<"\n">>)
                               THEN tr \o <<"\n">> ELSE tr
                      ELSE out)
                     \o indent_table_for_list(table_output, ctx.list_depth, o)
                ELSE (IF ~EndsWith(out, NLNL)
                      THEN (IF out = <<>> \/ ~EndsWith(out, <<"\n">>)
                            THEN out \o NLNL ELSE out \o <<"\n">>)
                      ELSE out)
                     \o table_output
    IN  [t EXCEPT !.out = IF ~EndsWith(out1, <<"\n">>) THEN out1 \o <<"\n">> ELSE out1]

walk_table(sibs, i, st, ctx, env) ==
    table_end(handle_table(sibs[i], st, ctx, env), st.out, ctx, env.o)

WalkFrom(cs, i, st, ctx, env) ==
    IF i > Len(cs) THEN st
    ELSE WalkFrom(cs, i + 1, WalkNode(cs, i, st, ctx, env), ctx, env)

\* match tag_name.as_ref() { ... }
walk_element(sibs, i, st, ctx, env) ==
    LET name == sibs[i].name
    IN  CASE name \in HeadingNames -> walk_heading(sibs, i, st, ctx, env)
          [] name = "p" -> walk_p(sibs, i, st, ctx, env)
          [] name \in {"strong", "b"} -> walk_strong(sibs, i, st, ctx, env)
          [] name \in {"em", "i"} -> walk_em(sibs, i, st, ctx, env)
          [] name = "a" -> walk_a(sibs, i, st, ctx, env)
          [] name = "code" -> walk_code(sibs, i, st, ctx, env)
          [] name = "pre" -> walk_pre(sibs, i, st, ctx, env)
          [] name = "br" -> [st EXCEPT !.out = walk_br(@, ctx, env.o)]
          [] name = "hr" ->
                [st EXCEPT !.out = walk_hr(@, get_previous_sibling_tag(sibs, i), ctx)]
          [] name \in {"article", "section", "nav", "aside", "header", "footer", "main"} ->
                walk_section(sibs, i, st, ctx, env)
          [] name \in {"ul", "ol"} -> walk_list(sibs, i, st, ctx, env)
          [] name = "li" -> walk_li(sibs, i, st, ctx, env)
          [] name = "menu" -> walk_menu(sibs, i, st, ctx, env)
          [] name = "table" -> walk_table(sibs, i, st, ctx, env)
          [] name = "img" -> walk_img(sibs, i, st, ctx, env)
          [] name = "u" -> walk_u(sibs, i, st, ctx, env)
          [] name \in {"thead", "tbody", "tfoot", "tr", "th", "td"} -> st
          [] name = "div" -> walk_div(sibs, i, st, ctx, env)
          [] name = "head" -> walk_head(sibs, i, st, ctx, env)
          [] name \in {"script", "style"} -> st
          [] name = "input" -> st
          [] name = "span" -> walk_span(sibs, i, st, ctx, env)
          [] name \in {"body", "html"} -> WalkChildren(sibs[i], st, ctx, env)
          [] OTHER -> walk_default(sibs, i, st, ctx, env)

\* visit_element_end, called with output[element_output_start..]
element_end(st, element_output_start, env) ==
    IF element_output_start > Len(st.out) THEN Panic(st, ElementSliceOutOfBounds)
    ELSE LET r == env.v.res["visit_element_end"]
             st1 == Visited(st, "visit_element_end", env)
         IN  CASE r = "Custom" ->
                    [st1 EXCEPT !.out = SubSeq(@, 1, element_output_start) \o CustomText]
               [] r = "Skip" -> [st1 EXCEPT !.out = SubSeq(@, 1, element_output_start)]
               [] r = "Error" -> record_visitor_error(st1, "visit_element_end")
               [] OTHER -> st1

\* visit_element_start returned Error
element_start_error(st) == st

\* the element past the visitor's element-start callback
preserve_children_only(st, n) == Push(st, serialize_children_only(n))

\* if ctx.preserve_tags.contains(tag_name) { output.push_str(&html); return }
preserve_element(st, n) == Push(st, serialize_tag_to_html(n))

\* past the handler of an element: the element-end callback, unless the
\* handler returned
tag_end(n, st2, element_output_start, env) ==
    IF st2.panic THEN st2
    ELSE IF st2.early THEN [st2 EXCEPT !.early = FALSE]
    ELSE IF env.v.on /\ n.name # "table"
    THEN element_end(st2, element_output_start, env)
    ELSE st2

walk_tag(sibs, i, st, ctx, env) ==
    IF should_drop_for_preprocessing(sibs[i], ctx, env.o)
    THEN [st EXCEPT !.out = trim_trailing_whitespace(@)]
    ELSE IF sibs[i].name \in env.o.strip_tags
    THEN WalkChildren(sibs[i], st, ctx, env)
    ELSE IF sibs[i].name \in env.o.preserve_tags
    THEN preserve_element(st, sibs[i])
    ELSE tag_end(sibs[i], walk_element(sibs, i, st, ctx, env), Len(st.out), env)

\* visit_element_start's answer, Continue without a visitor
element_start(env) ==
    IF env.v.on THEN env.v.res["visit_element_start"] ELSE "Continue"

\* st1 is the walker's state past the element-start callback
walk_visited_tag(sibs, i, st1, ctx, env) ==
    CASE element_start(env) = "Skip" -> st1
      [] element_start(env) = "Custom" ->
            IF sibs[i].name # "table"
            THEN Visited(Push(st1, CustomText), "visit_element_end", env)
            ELSE Push(st1, CustomText)
      [] element_start(env) = "Error" -> element_start_error(st1)
      [] OTHER -> walk_tag(sibs, i, st1, ctx, env)

WalkNode(sibs, i, st, ctx, env) ==
    IF st.panic THEN st
    ELSE IF IsRaw(sibs[i]) THEN walk_raw(sibs, i, st, ctx, env)
    ELSE IF ~IsTag(sibs[i]) THEN st
    ELSE walk_visited_tag(sibs, i,
             IF env.v.on THEN Visited(st, "visit_element_start", env) ELSE st,
             ctx, env)

(***************************************************************************)
(* convert_html_impl.                                                      *)
(***************************************************************************)
RECURSIVE has_custom_element_tags(_)
\* a tag whose name holds a hyphen
has_custom_element_tags(doc) ==
    \E k \in 1..Len(doc) :
        \/ IsTag(doc[k]) /\ doc[k].name = "x-t"
        \/ has_custom_element_tags(doc[k].children)

RECURSIVE MisnestIn(_, _, _)
\* a block element, outside pre and code, under an inline ancestor other
\* than a, ins and del
MisnestIn(cs, under_inline, in_pre) ==
    \E k \in 1..Len(cs) :
        LET n == cs[k]
            pre == in_pre \/ n.name \in {"pre", "code"}
        IN  /\ IsTag(n)
            /\ \/ is_block(n.name) /\ ~pre /\ under_inline
               \/ MisnestIn(n.children,
                     under_inline \/ (is_inline_element(n.name)
                                      /\ ~inline_ancestor_allows_block(n.name)),
                     pre)

has_inline_block_misnest(doc) == MisnestIn(doc, FALSE, FALSE)

IsRepaired(doc) == Len(doc) = 1 /\ IsTag(doc[1]) /\ doc[1].name = "html"

\* html5ever parses the input as a document and serializes the document:
\* the nodes end up in the body of an html element
repair_with_html5ever(doc) ==
    IF IsRepaired(doc) THEN doc
    ELSE <<Tag("html", <<Tag("head", <<>>), Tag("body", doc)>>)>>

\* tl::parse on the k-th attempt of a conversion
tl_parse_ok(inp, k) == k \notin inp.rejects

format_metadata_frontmatter(metadata) ==
    <<"-", "-", "-", "\n">>
    \o Concat([k \in 1..Len(metadata) |->
                 metadata[k][1] \o <<":", " ">> \o metadata[k][2] \o <<"\n">>])
    \o <<"-", "-", "-", "\n">>

RawText(cs) ==
    Concat([k \in 1..Len(cs) |-> IF IsRaw(cs[k]) THEN cs[k].text ELSE <<>>])

\* the order of the bytes that keys are made of
ByteOrder ==
    <<"-", "a", "b", "c", "d", "e", "f", "g", "h", "i", "j", "k", "l", "m", "n",
      "o", "p", "q", "r", "s", "t", "u", "v", "w", "x", "y", "z">>

ByteRank(c) == CHOOSE k \in 1..Len(ByteOrder) : ByteOrder[k] = c

RECURSIVE KeyLess(_, _)
\* Ord for String: a < b
KeyLess(a, b) ==
    IF b = <<>> THEN FALSE
    ELSE IF a = <<>> THEN TRUE
    ELSE IF Head(a) = Head(b) THEN KeyLess(Tail(a), Tail(b))
    ELSE ByteRank(Head(a)) < ByteRank(Head(b))

\* BTreeMap::insert: the map is the sequence of its entries in key order
MapInsert(md, key, value) ==
    LET below == SelectSeq(md, LAMBDA e : KeyLess(e[1], key))
        above == SelectSeq(md, LAMBDA e : KeyLess(key, e[1]))
    IN  below \o << <<key, value>> >> \o above

\* what one child of the head adds to the metadata: a meta with a name and
\* a content, and the title's raw text when it is not blank
head_child_metadata(md, c, o) ==
    IF ~IsTag(c) THEN md
    ELSE IF c.name = "meta" /\ "meta" \notin o.strip_tags
            /\ "meta" \notin o.preserve_tags /\ c.attrs.meta # <<>>
    THEN MapInsert(md, StrOf("meta") \o <<"-">> \o c.attrs.meta[1], c.attrs.meta[2])
    ELSE IF c.name = "title" /\ "title" \notin o.strip_tags
            /\ "title" \notin o.preserve_tags /\ Trim(RawText(c.children)) # <<>>
    THEN MapInsert(md, StrOf("title"), Trim(RawText(c.children)))
    ELSE md

RECURSIVE head_metadata(_, _, _, _)
head_metadata(cs, k, md, o) ==
    IF k > Len(cs) THEN md
    ELSE head_metadata(cs, k + 1, head_child_metadata(md, cs[k], o), o)

RECURSIVE extract_head_metadata(_, _)
\* the metadata of the first head found under the node
extract_head_metadata(n, o) ==
    IF ~IsTag(n) THEN <<>>
    ELSE IF n.name = "head" THEN head_metadata(n.children, 1, <<>>, o)
    ELSE LET ks == {k \in 1..Len(n.children) :
                       extract_head_metadata(n.children[k], o) # <<>>}
         IN  IF ks = {} THEN <<>>
             ELSE extract_head_metadata(
                      n.children[CHOOSE j \in ks : \A l \in ks : j <= l], o)

\* the frontmatter written whenever extract_metadata is set
head_frontmatter_when_inline(doc, o) ==
    LET ks == {k \in 1..Len(doc) : extract_head_metadata(doc[k], o) # <<>>}
    IN  IF o.extract_metadata /\ ks # {}
        THEN format_metadata_frontmatter(
                 extract_head_metadata(doc[CHOOSE j \in ks : \A l \in ks : j <= l], o))
        ELSE <<>>

\* the frontmatter convert_html_impl writes ahead of the walk
head_frontmatter(doc, o) ==
    LET wants_frontmatter == o.extract_metadata /\ ~o.convert_as_inline
        ks == {k \in 1..Len(doc) : extract_head_metadata(doc[k], o) # <<>>}
    IN  IF wants_frontmatter /\ ks # {}
        THEN format_metadata_frontmatter(
                 extract_head_metadata(doc[CHOOSE j \in ks : \A l \in ks : j <= l], o))
        ELSE <<>>

\* the hOCR branch: the frontmatter of the OCR metadata, then the markdown
\* of the hOCR converter without its trailing whitespace and with a newline
hocr_result(inp) ==
    LET out == IF inp.o.extract_metadata /\ ~inp.o.convert_as_inline
                  /\ inp.hocr_meta # <<>>
               THEN format_metadata_frontmatter(inp.hocr_meta) ELSE <<>>
    IN  IF Trim(inp.hocr_markdown) = <<>> THEN out
        ELSE out \o TrimEnd(inp.hocr_markdown) \o <<"\n">>

NoResult == [kind |-> "none", text |-> <<>>, error |-> ""]
Ok(text) == [kind |-> "ok", text |-> text, error |-> ""]
Err(kind, msg) == [kind |-> kind, text |-> <<>>, error |-> msg]

(***************************************************************************)
(* The conversions the model follows.  An input is the document the fast   *)
(* parser builds from the preprocessed HTML, the options, the visitor,     *)
(* the parse attempts the fast parser rejects, whether html5ever can       *)
(* repair, and, for an hOCR document, what the hOCR converter returns.     *)
(***************************************************************************)
Spaces(k) == Repeat(<<" ">>, k)

T == <<"T">>
U == <<"u">>

Input(doc, o, v) ==
    [doc |-> doc, o |-> o, v |-> v, rejects |-> {}, repair_ok |-> TRUE,
     is_hocr |-> FALSE, hocr_markdown |-> <<>>, hocr_meta |-> <<>>]

\* the documents of one or two root nodes over a set of nodes
UpToTwo(A) == {<<a>> : a \in A} \cup {<<a, b>> : a \in A, b \in A}

WsTexts ==
    {Spaces(k) : k \in 1..MaxWs} \cup {T \o Spaces(k) : k \in 1..MaxWs}
    \cup {<<"\t">>, <<"\n">>, T, <<"T", "\t">>}

BlockAtoms ==
    {TextNode(t) : t \in WsTexts}
    \cup {Tag("p", <<TextNode(t)>>) : t \in {Spaces(1), Spaces(2), T}}
    \cup {CommentNode, Tag("p", <<>>), Tag("script", <<TextNode(T)>>),
          Tag("br", <<>>), Tag("hr", <<>>),
          Tag("pre", <<TextNode(<<"T", " ", " ", " ">>)>>),
          Tag("h1", <<TextNode(T)>>), Tag("div", <<TextNode(T)>>),
          Tag("section", <<TextNode(T)>>), Tag("span", <<TextNode(Spaces(2))>>),
          Tag("strong", <<TextNode(T)>>)}

BlockInputs ==
    {Input(d, [DefaultOptions EXCEPT !.whitespace_mode = w], NoVisitor) :
        d \in {<<>>} \cup UpToTwo(BlockAtoms), w \in {"Normalized", "Strict"}}

\* strip_tags, preserve_tags and navigation removal
TagDocs ==
    {<<Anchor(U, <<Tag("h2", <<TextNode(T)>>)>>)>>,
     <<Tag("p", <<TextNode(T), Tag("strong", <<TextNode(T)>>)>>)>>,
     <<Tag("h2", <<TextNode(T)>>)>>,
     <<Tag("strong", <<TextNode(T)>>)>>,
     <<Tag("span", <<TextNode(<<"T", " ", "\n", "T">>)>>)>>,
     <<Tag("h2", <<Tag("span", <<TextNode(<<"T", " ", " ", "T">>)>>)>>)>>,
     <<TextNode(T), Tag("span", <<TextNode(T)>>)>>,
     <<Tag("p", <<TextNode(T)>>), Tag("nav", <<TextNode(T)>>)>>,
     <<Tag("x-t", <<TextNode(T)>>)>>}

\* a visitor that only replaces what element-end is handed
EndVisitor ==
    VisitorWith([c \in Callbacks |->
                   IF c = "visit_element_end" THEN "Custom" ELSE "Continue"])

TagInputs ==
    {Input(d, [DefaultOptions EXCEPT !.strip_tags = st, !.preserve_tags = pt,
                                     !.remove_navigation = rn], v) :
        d \in TagDocs, v \in {NoVisitor, EndVisitor},
        st \in {{}, {"h2"}, {"span"}, {"strong"}},
        pt \in {{}, {"h2"}, {"span"}, {"strong"}, {"nav"}},
        rn \in BOOLEAN}

\* the visitors: at most two callbacks answer otherwise than Continue
Visitors ==
    {VisitorWith([c \in Callbacks |->
                    IF c = a THEN ra ELSE IF c = b THEN rb ELSE "Continue"]) :
        a \in Callbacks \ SideCallbacks, b \in Callbacks \ SideCallbacks,
        ra \in VisitResults, rb \in VisitResults}

VisitorDocs ==
    {<<TextNode(T)>>,
     <<Tag("p", <<TextNode(T)>>)>>,
     <<Tag("strong", <<TextNode(T)>>)>>,
     <<Tag("h1", <<TextNode(T)>>)>>,
     <<Anchor(U, <<TextNode(T)>>)>>,
     <<Tag("pre", <<TextNode(T)>>)>>,
     <<Tag("p", <<TextNode(T)>>), Tag("h1", <<TextNode(T)>>)>>,
     <<TextNode(T), Tag("span", <<TextNode(T)>>)>>}

VisitorInputs == {Input(d, DefaultOptions, v) : d \in VisitorDocs, v \in Visitors}

\* anchors
LinkDocs ==
    {<<Anchor(h, cs)>> :
        h \in {U, <<>>, Mailto \o U},
        cs \in {<<>>, <<TextNode(U)>>, <<TextNode(T)>>,
                <<TextNode(<<" ", "u", " ", "\n">>)>>,
                <<Tag("strong", <<TextNode(U)>>)>>}}
    \cup {<<TextNode(T), Anchor(U, <<TextNode(U)>>)>>}
    \cup {<<Tag("a", cs)>> :
            cs \in {<<TextNode(T)>>, <<Tag("strong", <<TextNode(U)>>), TextNode(T)>>}}
    \cup {<<TextNode(T), Anchor(<<>>, <<TextNode(T)>>)>>}

LinkInputs ==
    {Input(d, [DefaultOptions EXCEPT !.autolinks = al, !.default_title = dt,
                                     !.convert_as_inline = ci,
                                     !.whitespace_mode = w, !.strip_tags = st], NoVisitor) :
        d \in LinkDocs, al \in BOOLEAN, dt \in BOOLEAN, ci \in BOOLEAN,
        w \in {"Normalized", "Strict"}, st \in {{}, {"a"}}}

\* parse failures and repairs
RepairDocs ==
    {<<Tag("p", <<TextNode(T)>>)>>,
     <<Tag("x-t", <<TextNode(T)>>)>>,
     <<Tag("span", <<Tag("div", <<TextNode(T)>>)>>)>>,
     <<Tag("span", <<Tag("pre", <<TextNode(T)>>)>>)>>,
     <<Tag("a", <<Tag("div", <<TextNode(T)>>)>>)>>,
     <<Tag("em", <<Tag("a", <<Tag("p", <<TextNode(T)>>)>>)>>)>>,
     <<Tag("pre", <<Tag("span", <<Tag("div", <<TextNode(T)>>)>>)>>)>>,
     <<Tag("code", <<Tag("p", <<TextNode(T)>>)>>)>>,
     <<Tag("head", <<Tag("title", <<TextNode(T)>>)>>), Tag("p", <<TextNode(T)>>)>>}

RepairInputs ==
    {[Input(d, [DefaultOptions EXCEPT !.extract_metadata = em], NoVisitor)
        EXCEPT !.rejects = rj, !.repair_ok = ok] :
        d \in RepairDocs, em \in BOOLEAN, rj \in SUBSET (1..MaxParseFail),
        ok \in BOOLEAN}

\* hOCR documents: what the hOCR converter returns is not the walker's work
HocrMarkdowns ==
    {<<>>, T, <<"T", "\n">>, <<"T", "\n", "\n">>, <<" ", " ">>,
     <<"T", " ", " ", "\n">>, <<"\n", "T">>, <<"\n", "\n">>}

HocrInputs ==
    {[Input(<<Tag("div", <<TextNode(T)>>)>>,
            [DefaultOptions EXCEPT !.extract_metadata = em, !.convert_as_inline = ci],
            NoVisitor)
        EXCEPT !.is_hocr = TRUE, !.hocr_markdown = md, !.hocr_meta = mt] :
        em \in BOOLEAN, ci \in BOOLEAN, md \in HocrMarkdowns,
        mt \in {<<>>, << <<<<"o", "c", "r">>, T>> >>}}

\* strong and emphasis, nested in each other
InlineTexts == {T, <<" ", "T", " ">>, <<"T", " ">>, Spaces(1), Spaces(2)}

InlineLeaves ==
    {Tag(n, <<TextNode(t)>>) : n \in {"strong", "b", "em", "i"}, t \in InlineTexts}
    \cup {Tag("em", <<>>), Classed(Tag("i", <<>>), <<ClassToken("", Caret)>>)}

InlineDocs ==
    {<<a>> : a \in InlineLeaves}
    \cup {<<Tag(n, <<a>>)>> : n \in {"strong", "em"}, a \in InlineLeaves}
    \cup {<<TextNode(T), a>> : a \in InlineLeaves}
    \cup {<<Tag("p", <<Tag("strong", <<TextNode(T)>>), TextNode(t),
                       Tag("em", <<TextNode(T)>>)>>)>> :
            t \in {Spaces(1), Spaces(2), <<"\n">>, <<" ", "\n">>}}

InlineInputs ==
    {Input(d, [DefaultOptions EXCEPT !.strong_em_symbol = sym,
                                     !.whitespace_mode = w], NoVisitor) :
        d \in InlineDocs, sym \in {"*", "_"}, w \in {"Normalized", "Strict"}}

\* code blocks and inline code
X == <<"x">>

PreNodes ==
    {Tag("pre", <<TextNode(t)>>) :
        t \in {T, <<"T", "\n">>, <<"T", "\n", "\n", "T">>, <<" ", "T", "\n", " ", "T">>,
               Spaces(2)}}
    \cup {Tag("pre", <<>>),
          Tag("pre", <<Classed(Tag("code", <<TextNode(T)>>),
                               <<ClassToken("language-", X)>>)>>),
          Classed(Tag("pre", <<Classed(Tag("code", <<TextNode(T)>>),
                                       <<ClassToken("lang-", U)>>)>>),
                  <<ClassToken("", T), ClassToken("lang-", X)>>),
          Tag("pre", <<Tag("code", <<TextNode(T)>>)>>)}

CodeTexts ==
    {T, <<"T", BT, "T">>, <<"T", BT, BT, "T">>, <<"T", BT, BT, BT, "T">>,
     <<BT, "T">>, <<"T", BT, "T", BT, BT, "T">>, <<" ", "T", BT, " ">>, Spaces(2)}

CodeDocs ==
    {<<a>> : a \in PreNodes}
    \cup {<<a, b>> : a \in PreNodes,
                     b \in {Tag("p", <<TextNode(T)>>), TextNode(T), Tag("pre", <<TextNode(T)>>)}}
    \cup {<<b, a>> : a \in PreNodes,
                     b \in {Tag("p", <<TextNode(T)>>), TextNode(<<"T", " ">>),
                            Tag("br", <<>>)}}
    \cup {<<Tag("code", <<TextNode(t)>>)>> : t \in CodeTexts}
    \cup {<<TextNode(T), Tag("code", <<TextNode(t)>>)>> : t \in CodeTexts}

CodeInputs ==
    {Input(d, [DefaultOptions EXCEPT !.code_block_style = cs, !.code_language = cl,
                                     !.convert_as_inline = ci,
                                     !.whitespace_mode = w], NoVisitor) :
        d \in CodeDocs, cs \in {"Indented", "Backticks", "Tildes"},
        cl \in {<<>>, <<"r">>}, ci \in BOOLEAN, w \in {"Normalized", "Strict"}}

\* line breaks, at the root, in a paragraph and in a heading
BrDocs ==
    {<<Tag("br", <<>>)>>, <<Tag("br", <<>>), Tag("br", <<>>)>>}
    \cup {<<TextNode(t), Tag("br", <<>>)>> : t \in {T, <<"T", " ">>, <<"T", "\n">>}}
    \cup {<<Tag(n, <<TextNode(t), Tag("br", <<>>), TextNode(T)>>)>> :
            n \in {"p", "h1", "h2"}, t \in {T, <<"T", " ">>, <<"T", " ", " ">>, <<"T", "\t">>}}
    \cup {<<Tag("h1", <<Tag("br", <<>>), TextNode(T)>>)>>}

BrInputs ==
    {Input(d, [DefaultOptions EXCEPT !.newline_style = ns, !.whitespace_mode = w],
           NoVisitor) :
        d \in BrDocs, ns \in {"Spaces", "Backslash"}, w \in {"Normalized", "Strict"}}

\* documents with and without a head that yields metadata
Meta(name, content) == [Tag("meta", <<>>) EXCEPT !.attrs.meta = <<name, content>>]

MetaDocs ==
    {<<Tag("head", h), Tag("p", <<TextNode(T)>>)>> :
        h \in {<<>>, <<Tag("title", <<TextNode(T)>>)>>,
               <<Tag("title", <<TextNode(<<" ">>)>>)>>,
               <<Tag("title", <<TextNode(T)>>), Meta(X, U)>>,
               <<Meta(X, U), Meta(X, T)>>,
               <<Meta(U, T), Meta(<<"t", "o">>, U), Tag("title", <<TextNode(U)>>)>>}}
    \cup {<<Tag("html", <<Tag("head", <<Tag("title", <<TextNode(T)>>)>>),
                          Tag("body", <<Tag("p", <<TextNode(T)>>)>>)>>)>>,
          <<Tag("head", <<Tag("title", <<TextNode(T)>>)>>)>>,
          <<Tag("p", <<TextNode(T)>>), Tag("head", <<Meta(X, U)>>)>>,
          <<Tag("p", <<TextNode(T)>>)>>}

MetaInputs ==
    {Input(d, [DefaultOptions EXCEPT !.extract_metadata = em,
                                     !.convert_as_inline = ci, !.strip_tags = st],
           NoVisitor) :
        d \in MetaDocs, em \in BOOLEAN, ci \in BOOLEAN,
        st \in {{}, {"title"}, {"meta"}}}

\* text between two elements, in both whitespace modes
BetweenTexts ==
    {Spaces(1), Spaces(2), <<"\t">>, <<" ", "\t", " ">>, <<"\n">>, <<" ", "\n">>,
     <<"\n", "\n">>, <<"T", " ", " ", "T">>, <<" ", "T", "\n">>, <<"T", "\n", "\n", "T">>}

BetweenDocs ==
    {<<a, TextNode(t), b>> :
        a \in {Tag("strong", <<TextNode(T)>>), Tag("span", <<TextNode(<<"T", " ">>)>>),
               Tag("p", <<TextNode(T)>>)},
        t \in BetweenTexts,
        b \in {Tag("em", <<TextNode(T)>>), Tag("p", <<TextNode(T)>>)}}

BetweenInputs ==
    {Input(d, [DefaultOptions EXCEPT !.whitespace_mode = w, !.strip_newlines = sn,
                                     !.escape_misc = em], NoVisitor) :
        d \in BetweenDocs, w \in {"Normalized", "Strict"}, sn \in BOOLEAN,
        em \in BOOLEAN}

\* lists
Li(cs) == Tag("li", cs)

Ol(start, cs) == [Tag("ol", cs) EXCEPT !.attrs.start = start]

Checkbox(checked) ==
    [Tag("input", <<>>) EXCEPT
        !.attrs.checkbox = IF checked THEN "checked" ELSE "unchecked"]

\* a list of kind a whose first item holds a list of kind b
Nested(a, b) ==
    LET L(kind, cs) == IF kind = "ol" THEN Ol(-1, cs) ELSE Tag(kind, cs)
    IN  <<L(a, <<Li(<<TextNode(T), L(b, <<Li(<<TextNode(T)>>)>>)>>),
                  Li(<<TextNode(T)>>)>>)>>

ListDocs ==
    {Nested(a, b) : a \in {"ul", "ol", "menu"}, b \in {"ul", "ol", "menu"}}
    \cup {<<Ol(9, <<Li(<<TextNode(T)>>), TextNode(<<"\n">>), Li(<<TextNode(T)>>)>>)>>,
          <<Tag("menu", <<Li(<<TextNode(T), Tag("menu", <<Li(<<TextNode(T)>>)>>)>>)>>)>>,
          <<Li(<<TextNode(T)>>)>>,
          <<TextNode(T), Li(<<TextNode(T)>>)>>,
          <<TextNode(T), Tag("ul", <<Li(<<TextNode(T)>>)>>)>>,
          <<Tag("ul", <<Li(<<Checkbox(TRUE), TextNode(T)>>),
                        Li(<<Tag("span", <<Checkbox(FALSE)>>), TextNode(T)>>)>>)>>,
          <<Tag("ul", <<Li(<<Tag("p", <<TextNode(T)>>)>>), Li(<<TextNode(T)>>)>>)>>,
          <<Tag("ul", <<Li(<<TextNode(T)>>), TextNode(NLNL), Li(<<TextNode(T)>>)>>)>>}

ListVisitorDocs ==
    {<<TextNode(T), Tag(kind, <<Li(<<TextNode(T)>>), Li(<<TextNode(T)>>)>>)>> :
        kind \in {"ul", "ol", "menu"}}

ListVisitors ==
    {VisitorWith([c \in Callbacks |-> IF c = a THEN ra ELSE "Continue"]) :
        a \in ListCallbacks, ra \in VisitResults}

ListInputs ==
    {Input(d, [DefaultOptions EXCEPT !.list_indent_type = it,
                                     !.list_indent_width = w, !.bullets = bs],
           NoVisitor) :
        d \in ListDocs, it \in {"Spaces", "Tabs"}, w \in {2, 4},
        bs \in {<<"-">>, <<"*", "+">>}}
    \cup {Input(d, DefaultOptions, v) : d \in ListVisitorDocs, v \in ListVisitors}


\* tables: cells of text with a pipe, bare and inside strong and code
PipeText == <<"T", "|", "T">>

CellContents ==
    {<<TextNode(T)>>, <<TextNode(PipeText)>>,
     <<Tag("strong", <<TextNode(PipeText)>>)>>,
     <<Tag("code", <<TextNode(PipeText)>>)>>,
     <<TextNode(T), Tag("code", <<TextNode(<<"|">>)>>)>>}

TableDocs ==
    {<<Tag("table", <<Tag("tr", <<Tag("th", a), Tag("td", b)>>)>>)>> :
        a \in CellContents, b \in CellContents}
    \cup {<<TextNode(T),
            Tag("table", <<Tag("thead", <<Tag("tr", <<Tag("th", a)>>)>>),
                           Tag("tbody", <<Tag("tr", <<Tag("td", a)>>)>>)>>),
            TextNode(T)>> : a \in CellContents}

TableInputs ==
    {Input(d, [DefaultOptions EXCEPT !.whitespace_mode = w, !.escape_misc = em],
           NoVisitor) :
        d \in TableDocs, w \in {"Normalized", "Strict"}, em \in BOOLEAN}


\* images: at the root, in a paragraph, in a heading, in a heading in a div
Img(has_title) ==
    [Tag("img", <<>>) EXCEPT !.attrs.src = U, !.attrs.alt = T,
                             !.attrs.has_title = has_title,
                             !.attrs.title = IF has_title THEN X ELSE <<>>]

ImgDocs ==
    UNION {{<<Img(t)>>,
            <<TextNode(T), Img(t)>>,
            <<Tag("p", <<Img(t)>>)>>,
            <<Tag("h1", <<Img(t)>>)>>,
            <<Tag("h2", <<TextNode(<<"x", " ">>), Img(t)>>)>>,
            <<Tag("div", <<Tag("h1", <<Img(t)>>)>>)>>} : t \in BOOLEAN}

ImgVisitors ==
    {VisitorWith([c \in Callbacks |-> IF c = "visit_image" THEN r ELSE "Continue"]) :
        r \in VisitResults}

ImgInputs ==
    {Input(d, [DefaultOptions EXCEPT !.keep_inline_images_in = keep,
                                     !.skip_images = skip,
                                     !.convert_as_inline = ci], NoVisitor) :
        d \in ImgDocs, keep \in {{}, {"h1"}, {"div"}, {"h1", "h2"}},
        skip \in BOOLEAN, ci \in BOOLEAN}
    \cup {Input(d, DefaultOptions, v) :
            d \in {<<Img(TRUE)>>, <<Tag("h1", <<Img(FALSE)>>)>>}, v \in ImgVisitors}


\* rules: after text, inside a paragraph, after a line that starts with ">"
Hr == Tag("hr", <<>>)

HrDocs ==
    {<<Tag("p", <<TextNode(T), Hr, TextNode(T)>>)>>,
     <<Tag("p", <<Hr>>)>>,
     <<TextNode(<<">", "T">>), Hr>>,
     <<TextNode(<<"T", " ">>), Hr, TextNode(T)>>,
     <<Tag("p", <<TextNode(T)>>), Hr, Tag("p", <<TextNode(T)>>)>>,
     <<Tag("strong", <<TextNode(T)>>), Hr, Tag("strong", <<TextNode(T)>>)>>}

HrInputs ==
    {Input(d, [DefaultOptions EXCEPT !.whitespace_mode = w], NoVisitor) :
        d \in HrDocs, w \in {"Normalized", "Strict"}}

\* underlined text: with a text child, a blank child, an element child, none
UDocs ==
    {<<Tag("u", <<TextNode(T)>>)>>,
     <<Tag("u", <<TextNode(<<" ">>)>>)>>,
     <<Tag("u", <<Tag("strong", <<TextNode(T)>>)>>)>>,
     <<Tag("u", <<>>)>>,
     <<TextNode(T), Tag("u", <<TextNode(T)>>)>>}

UVisitors ==
    {VisitorWith([c \in Callbacks |-> IF c = "visit_underline" THEN r ELSE "Continue"]) :
        r \in VisitResults}

UInputs == {Input(d, DefaultOptions, v) : d \in UDocs, v \in UVisitors \cup {NoVisitor}}

\* elements entered on a buffer that ends in whitespace, with a visitor
\* whose visit_element_end is called with the element's part of the buffer
Br == Tag("br", <<>>)

EndDocs ==
    {<<TextNode(T), Br, Tag("h1", <<>>)>>,
     <<TextNode(T), Br, Tag("h1", <<TextNode(T)>>)>>,
     <<TextNode(T), Br, Tag("p", <<>>)>>,
     <<TextNode(T), Br, Tag("p", <<TextNode(T)>>)>>,
     <<TextNode(T), Br, Hr>>,
     <<TextNode(T), Br, Tag("span", <<>>)>>,
     <<TextNode(T), Br, Tag("div", <<>>)>>,
     <<TextNode(T), Br, Tag("blockquote", <<>>)>>,
     <<TextNode(T), Br, Tag("ul", <<Tag("li", <<>>)>>)>>,
     <<TextNode(<<">", "T">>), Br, Hr>>,
     <<TextNode(<<"T", " ", " ", " ">>), Tag("h1", <<>>)>>,
     <<TextNode(<<"T", " ", " ", " ">>), Tag("p", <<>>)>>,
     <<Tag("ul", <<Tag("li", <<>>)>>)>>,
     <<Tag("h1", <<>>)>>}

EndVisitors ==
    {VisitorWith([c \in Callbacks |-> IF c = "visit_element_end" THEN r ELSE "Continue"]) :
        r \in {"Continue", "Skip", "Custom"}}

EndInputs ==
    {Input(d, [DefaultOptions EXCEPT !.whitespace_mode = w, !.newline_style = ns], v) :
        d \in EndDocs, w \in {"Normalized", "Strict"}, ns \in {"Spaces", "Backslash"},
        v \in EndVisitors}

\* list items under an empty bullets option
BulletDocs ==
    {<<Tag("ul", <<Li(<<TextNode(T)>>)>>)>>,
     <<Ol(-1, <<Li(<<TextNode(T)>>)>>)>>,
     <<Tag("menu", <<Li(<<TextNode(T)>>)>>)>>,
     <<Li(<<TextNode(T)>>)>>,
     <<Tag("ul", <<Li(<<Checkbox(TRUE), TextNode(T)>>)>>)>>,
     <<Tag("ul", <<Li(<<>>)>>)>>}

BulletInputs ==
    {Input(d, [DefaultOptions EXCEPT !.bullets = bs], NoVisitor) :
        d \in BulletDocs, bs \in {<<>>, <<"+">>}}

\* elements that are stripped, preserved or autolinked, under a visitor
\* whose callbacks all answer Continue
BalanceDocs ==
    {<<Tag("p", <<TextNode(T)>>)>>,
     <<TextNode(T), Tag("strong", <<TextNode(T)>>)>>,
     <<Tag("p", <<Tag("strong", <<TextNode(T)>>)>>)>>,
     <<Anchor(U, <<TextNode(U)>>)>>,
     <<Tag("section", <<TextNode(T)>>)>>,
     <<Tag("table", <<Tag("tr", <<Tag("td", <<TextNode(T)>>)>>)>>)>>}

BalanceInputs ==
    {Input(d, [DefaultOptions EXCEPT !.strip_tags = s, !.preserve_tags = p,
                                     !.autolinks = al, !.convert_as_inline = ci],
           VisitorWith([c \in Callbacks |-> "Continue"])) :
        d \in BalanceDocs, s \in {{}, {"strong"}}, p \in {{}, {"p"}},
        al \in BOOLEAN, ci \in BOOLEAN}

Inputs ==
    BlockInputs \cup TagInputs \cup VisitorInputs \cup LinkInputs
    \cup RepairInputs \cup HocrInputs \cup InlineInputs \cup CodeInputs
    \cup BrInputs \cup ListInputs \cup MetaInputs \cup BetweenInputs
    \cup TableInputs \cup ImgInputs \cup HrInputs \cup UInputs
    \cup EndInputs \cup BulletInputs \cup BalanceInputs

(***************************************************************************)
(* The steps of convert_html_impl.                                         *)
(***************************************************************************)
Init ==
    /\ input \in Inputs
    /\ pc = "start"
    /\ dom = input.doc
    /\ output = <<>>
    /\ next = 1
    /\ visitor_error = ""
    /\ visits = <<>>
    /\ result = NoResult
    /\ repairs = [custom |-> 0, parse |-> 0, misnest |-> 0]
    /\ parses = 0
    /\ entry = <<>>

\* if has_custom_element_tags(&preprocessed) { repair }
Preprocess ==
    /\ pc = "start"
    /\ pc' = "parse"
    /\ IF has_custom_element_tags(dom) /\ input.repair_ok
       THEN /\ dom' = repair_with_html5ever(dom)
            /\ repairs' = [repairs EXCEPT !.custom = @ + 1]
       ELSE UNCHANGED <<dom, repairs>>
    /\ UNCHANGED <<input, output, next, visitor_error, visits, result, parses, entry>>

\* the parse loop: tl::parse accepts
ParseOk ==
    /\ pc = "parse"
    /\ tl_parse_ok(input, parses + 1)
    /\ parses' = parses + 1
    /\ pc' = "parsed"
    /\ UNCHANGED <<input, dom, output, next, visitor_error, visits, result, repairs, entry>>

\* the parse loop: tl::parse rejects, the input is repaired, and the loop
\* goes round again
ParseRepair ==
    /\ pc = "parse"
    /\ ~tl_parse_ok(input, parses + 1)
    /\ input.repair_ok
    /\ parses' = parses + 1
    /\ dom' = repair_with_html5ever(dom)
    /\ repairs' = [repairs EXCEPT !.parse = @ + 1]
    /\ UNCHANGED <<pc, input, output, next, visitor_error, visits, result, entry>>

\* the parse loop: tl::parse rejects and html5ever cannot repair
ParseFail ==
    /\ pc = "parse"
    /\ ~tl_parse_ok(input, parses + 1)
    /\ ~input.repair_ok
    /\ parses' = parses + 1
    /\ pc' = "done"
    /\ result' = Err("ParseError", "Failed to parse HTML")
    /\ UNCHANGED <<input, dom, output, next, visitor_error, visits, repairs, entry>>

\* if is_hocr { ... return Ok(output) }
Hocr ==
    /\ pc = "parsed"
    /\ input.is_hocr
    /\ pc' = "done"
    /\ output' = hocr_result(input)
    /\ result' = Ok(hocr_result(input))
    /\ UNCHANGED <<input, dom, next, visitor_error, visits, repairs, parses, entry>>

\* if has_inline_block_misnest(..) { if let Some(repaired) = repair { re-parse } }
MisnestRepair ==
    /\ pc = "parsed"
    /\ ~input.is_hocr
    /\ has_inline_block_misnest(dom)
    /\ input.repair_ok
    /\ parses' = parses + 1
    /\ repairs' = [repairs EXCEPT !.misnest = @ + 1]
    /\ IF tl_parse_ok(input, parses + 1)
       THEN /\ dom' = repair_with_html5ever(dom)
            /\ pc' = "front"
            /\ UNCHANGED result
       ELSE /\ pc' = "done"
            /\ result' = Err("ParseError", "Failed to parse repaired HTML")
            /\ UNCHANGED dom
    /\ UNCHANGED <<input, output, next, visitor_error, visits, entry>>

\* the frontmatter and the Context: the walk is about to start
BeginWalk ==
    /\ \/ pc = "front"
       \/ /\ pc = "parsed"
          /\ ~input.is_hocr
          /\ ~(has_inline_block_misnest(dom) /\ input.repair_ok)
    /\ pc' = "walk"
    /\ output' = head_frontmatter(dom, input.o)
    /\ next' = 1
    /\ UNCHANGED <<input, dom, visitor_error, visits, result, repairs, parses, entry>>

\* for child_handle in dom.children() { walk_node(child_handle, ..) }
WalkStep ==
    /\ pc = "walk"
    /\ next <= Len(dom)
    /\ LET st == WalkNode(dom, next, WalkState(output, visitor_error, visits),
                          InitialContext(input.o), [o |-> input.o, v |-> input.v])
       IN  /\ output' = st.out
           /\ visitor_error' = st.err
           /\ visits' = st.log
           /\ IF st.panic
              THEN /\ pc' = "done"
                   /\ result' = Err("panic", st.why)
              ELSE UNCHANGED <<pc, result>>
    /\ entry' = output
    /\ next' = next + 1
    /\ UNCHANGED <<input, dom, repairs, parses>>

\* the walk is over: the visitor's error, or the cleaned output
Finish ==
    /\ pc = "walk"
    /\ next > Len(dom)
    /\ pc' = "done"
    /\ result' = IF visitor_error # "" THEN Err("Visitor", visitor_error)
                 ELSE Ok(finalize_output(output))
    /\ UNCHANGED <<input, dom, output, next, visitor_error, visits, repairs, parses, entry>>

Next ==
    \/ Preprocess
    \/ ParseOk
    \/ ParseRepair
    \/ ParseFail
    \/ Hocr
    \/ MisnestRepair
    \/ BeginWalk
    \/ WalkStep
    \/ Finish

Spec == Init /\ [][Next]_vars

\* the final output of a conversion that succeeded
Succeeded == pc = "done" /\ result.kind = "ok"

(***************************************************************************)
(* Properties of the final output.                                         *)
(***************************************************************************)
NormalPath == ~input.is_hocr

\* the spaces and tabs a line ends with
TrailingBlanks(line) ==
    SubSeq(line, Len(TrimEndMatches(line, {" ", "\t"})) + 1, Len(line))

EndsWithOneNewline(s) ==
    /\ s[Len(s)] = "\n"
    /\ Len(s) > 1 => s[Len(s) - 1] # "\n"

\* C1: the Markdown of a conversion that succeeds is empty or ends with
\* exactly one newline, on the normal path and on the hOCR path
C1_EndsWithOneNewline ==
    Succeeded => (result.text = <<>> \/ EndsWithOneNewline(result.text))

\* the walker left a buffer ending in a blank line and the cleaned result
\* is not empty
C1_Witness ==
    /\ Succeeded
    /\ NormalPath
    /\ EndsWith(output, NLNL)
    /\ result.text # <<>>

\* C2: on the normal path no line of the Markdown ends with a space or a
\* tab, except with exactly two spaces
C2_NoTrailingBlanks ==
    (Succeeded /\ NormalPath) =>
        \A k \in 1..Len(Lines(result.text)) :
            TrailingBlanks(Lines(result.text)[k]) \in {<<>>, <<" ", " ">>}

\* the walker left a line ending with three spaces or more, or with a tab
C2_Witness ==
    /\ Succeeded
    /\ NormalPath
    /\ result.text # <<>>
    /\ \E k \in 1..Len(Lines(output)) :
           \/ Len(TrailingBlanks(Lines(output)[k])) >= 3
           \/ EndsWith(Lines(output)[k], <<"\t">>)

RECURSIVE RendersNothing(_)
\* a node with no renderable content: whitespace-only text, a comment, a
\* script or style element, or a container of such nodes
RendersNothing(n) ==
    \/ n.kind = "comment"
    \/ IsRaw(n) /\ Trim(n.text) = <<>>
    \/ /\ IsTag(n)
       /\ \/ n.name \in {"script", "style"}
          \/ /\ n.name \in {"p", "span", "div", "strong", "section"}
             /\ \A k \in 1..Len(n.children) : RendersNothing(n.children[k])

NoRenderableContent(doc) == \A k \in 1..Len(doc) : RendersNothing(doc[k])

\* C3: an input with no renderable content converts to the empty string
C3_EmptyForNoContent ==
    (pc = "done" /\ NormalPath /\ input.rejects = {}
     /\ NoRenderableContent(input.doc)) => result = Ok(<<>>)

(***************************************************************************)
(* Properties of one step of the walk over the root nodes: entry is the    *)
(* buffer before the step and output the buffer after it.                  *)
(***************************************************************************)
Env == [o |-> input.o, v |-> input.v]

\* a root node has just been walked
Stepped == pc \in {"walk", "done"} /\ next > 1 /\ next - 1 <= Len(dom)

Last == dom[next - 1]

\* the walker reached the handler of the last root node: the visitor let it
\* through and preprocessing kept it
ReachedHandler ==
    /\ Stepped
    /\ IsTag(Last)
    /\ element_start(Env) = "Continue"
    /\ ~should_drop_for_preprocessing(Last, InitialContext(input.o), input.o)

RECURSIVE TagNames(_)
\* the names of the elements of a forest
TagNames(cs) ==
    UNION {(IF IsTag(cs[k]) THEN {cs[k].name} ELSE {}) \cup TagNames(cs[k].children) :
              k \in 1..Len(cs)}

\* C4: when every heading of the document is named in strip_tags, the
\* output holds no heading marker, also for a heading that is the single
\* heading child of an anchor with an href
C4_NoStrippedHeadingMarker ==
    (Succeeded /\ NormalPath /\ ~input.v.on
     /\ (TagNames(dom) \cap HeadingNames) \subseteq input.o.strip_tags)
        => ~Contains(result.text, <<"#">>)

\* C5: an element named in preserve_tags and not in strip_tags, reached by
\* the walker's handler, adds exactly its HTML serialization to the buffer
C5_PreservedAppended ==
    (ReachedHandler
     /\ Last.name \in input.o.preserve_tags
     /\ Last.name \notin input.o.strip_tags)
        => output = entry \o serialize_node(Last)

\* a preserved element was walked after some output, with a visitor set
C5_Witness ==
    /\ ReachedHandler
    /\ Last.name \in input.o.preserve_tags
    /\ Last.name \notin input.o.strip_tags
    /\ input.v.on
    /\ entry # <<>>
    /\ output = entry \o serialize_node(Last)

\* C5 as stated: the serialization of every root element named in
\* preserve_tags is in the final output verbatim, also when the name is in
\* strip_tags and when the serialization has lines ending in whitespace
C5_PreservedVerbatim ==
    (Succeeded /\ NormalPath /\ ~input.v.on)
        => \A k \in 1..Len(dom) :
              (/\ IsTag(dom[k])
               /\ dom[k].name \in input.o.preserve_tags
               /\ ~should_drop_for_preprocessing(dom[k], InitialContext(input.o),
                                                 input.o))
                  => Contains(result.text, serialize_node(dom[k]))

ErrorVisits == {k \in 1..Len(visits) : visits[k].res = "Error"}

FirstErrorVisit == CHOOSE k \in ErrorVisits : \A j \in ErrorVisits : k <= j

\* C6: when a callback answered Error, the conversion returns the Visitor
\* error of the first callback that did
C6_FirstErrorReturned ==
    (pc = "done" /\ ErrorVisits # {})
        => result = Err("Visitor", visits[FirstErrorVisit].cb)

OnlyTextCustom ==
    /\ input.v.on
    /\ \A c \in Callbacks :
          input.v.res[c] = (IF c = "visit_text" THEN "Custom" ELSE "Continue")

\* C7: when visit_text answers Custom(s) for the text nodes of the
\* document, the output holds s and not the text, also inside an inline
\* element or a heading
C7_CustomTextReplaces ==
    (Succeeded /\ OnlyTextCustom
     /\ \E k \in 1..Len(visits) : visits[k].cb = "visit_text")
        => /\ Contains(result.text, CustomText)
           /\ ~Contains(result.text, T)

\* C8: each kind of repair is made at most once in a conversion
C8_RepairOncePerMode ==
    repairs.custom <= 1 /\ repairs.parse <= 1 /\ repairs.misnest <= 1

\* the separator a block needs after the buffer: the buffer without its
\* trailing spaces and tabs, ended by a blank line
MinimalSeparator(out) ==
    trim_trailing_whitespace(out)
    \o (IF EndsWith(trim_trailing_whitespace(out), <<"\n">>) THEN <<"\n">> ELSE NLNL)

\* C9: a root p, h1..h6 or div that adds content to a non-empty buffer not
\* ending in a blank line starts after the minimal separator: the buffer,
\* trimmed, then a blank line and no third newline
C9_MinimalBlockSeparator ==
    (ReachedHandler /\ ~input.v.on
     /\ Last.name \in HeadingNames \cup {"p", "div"}
     /\ Last.name \notin input.o.strip_tags \cup input.o.preserve_tags
     /\ ~input.o.convert_as_inline
     /\ entry # <<>> /\ ~EndsWith(entry, NLNL)
     /\ Len(output) > Len(entry))
        => /\ StartsWith(output, MinimalSeparator(entry))
           /\ Len(output) > Len(MinimalSeparator(entry))
           /\ output[Len(MinimalSeparator(entry)) + 1] # "\n"

\* the last root node is an anchor with an href that its handler renders
AnchorHandled ==
    /\ ReachedHandler
    /\ Last.name = "a"
    /\ Last.attrs.has_href
    /\ "a" \notin input.o.strip_tags \cup input.o.preserve_tags

VisibleText(n) == Trim(normalize_whitespace(get_text_content(n)))

MailtoOf(n) ==
    /\ StartsWith(n.attrs.href, Mailto)
    /\ VisibleText(n) = SubSeq(n.attrs.href, 8, Len(n.attrs.href))

StrongNames == {"strong", "b"}
EmNames == {"em", "i"}

RECURSIVE InlineOnly(_)
\* the subtree holds only text and strong/b and em/i without a class
InlineOnly(n) ==
    \/ IsRaw(n)
    \/ /\ IsTag(n) /\ n.name \in StrongNames \cup EmNames
       /\ n.attrs.class = <<>>
       /\ \A k \in 1..Len(n.children) : InlineOnly(n.children[k])

\* the last root node is a strong/b or em/i that its handler renders,
\* without a visitor
StrongEmHandled ==
    /\ ReachedHandler
    /\ ~input.v.on
    /\ InlineOnly(Last)
    /\ (StrongNames \cup EmNames) \cap (input.o.strip_tags \cup input.o.preserve_tags) = {}

\* the content the handler of the last root node collected
CollectedContent ==
    WalkFrom(Last.children, 1, WalkState(<<>>, "", <<>>),
             [InitialContext(input.o) EXCEPT
                 !.inline_depth = 1, !.in_strong = Last.name \in StrongNames,
                 !.anc = <<Last.name>>], Env).out

Markers(n) ==
    IF n.name \in StrongNames
    THEN <<input.o.strong_em_symbol, input.o.strong_em_symbol>>
    ELSE <<input.o.strong_em_symbol>>

SymCount(s) == Cardinality({k \in 1..Len(s) : s[k] = input.o.strong_em_symbol})

RECURSIVE StatedMarkers(_)
\* the marker characters of a subtree when every strong/b with text gives
\* four and every em/i with text two
StatedMarkers(n) ==
    IF ~IsTag(n) THEN 0
    ELSE LET own == IF Trim(text_content(n)) = <<>> THEN 0
                    ELSE IF n.name \in StrongNames THEN 4 ELSE 2
             RECURSIVE Sum(_)
             Sum(k) == IF k = 0 THEN 0 ELSE StatedMarkers(n.children[k]) + Sum(k - 1)
         IN  own + Sum(Len(n.children))

RECURSIVE FlattenedMarkers(_, _)
\* the same when a strong/b inside a strong/b gives none
FlattenedMarkers(n, in_strong) ==
    IF ~IsTag(n) THEN 0
    ELSE LET own == IF Trim(text_content(n)) = <<>> THEN 0
                    ELSE IF n.name \in StrongNames
                         THEN (IF in_strong THEN 0 ELSE 4)
                         ELSE 2
             RECURSIVE Sum(_)
             Sum(k) == IF k = 0 THEN 0
                       ELSE FlattenedMarkers(n.children[k],
                                in_strong \/ n.name \in StrongNames) + Sum(k - 1)
         IN  own + Sum(Len(n.children))

\* C11: without a visitor a strong/b or em/i at the root whose collected
\* content has non-whitespace text is rendered as the content's leading
\* whitespace, the markers (the symbol twice for strong/b, once for em/i),
\* the trimmed content, the markers and the trailing whitespace; inside it
\* every em/i with text adds its two markers and a strong/b nested in a
\* strong/b adds none
C11_StrongEm ==
    (StrongEmHandled /\ Trim(CollectedContent) # <<>>)
        => LET c == chomp_inline(CollectedContent)
           IN  /\ output = entry \o c.prefix \o Markers(Last) \o c.trimmed
                                 \o Markers(Last) \o c.suffix
               /\ SymCount(output) - SymCount(entry) = FlattenedMarkers(Last, FALSE)

\* a strong holding a strong with padded text was rendered with underscores
C11_Witness ==
    /\ StrongEmHandled /\ Trim(CollectedContent) # <<>>
    /\ Last.name = "strong" /\ Len(Last.children) = 1
    /\ IsTag(Last.children[1]) /\ Last.children[1].name \in StrongNames
    /\ input.o.strong_em_symbol = "_"
    /\ chomp_inline(CollectedContent).prefix # <<>>
    /\ SymCount(output) = 4

\* C11 as stated: every strong/b with text is rendered with the symbol
\* twice on each side and every em/i with it once, nested or not
C11_EveryStrongMarked ==
    (StrongEmHandled /\ Trim(CollectedContent) # <<>>)
        => SymCount(output) - SymCount(entry) = StatedMarkers(Last)

(***************************************************************************)
(* Code blocks.                                                            *)
(***************************************************************************)
\* the last root node is a pre that its handler renders, without a visitor
CodeBlockHandled ==
    /\ ReachedHandler
    /\ ~input.v.on
    /\ Last.name = "pre"
    /\ {"pre", "code"} \cap (input.o.strip_tags \cup input.o.preserve_tags) = {}

\* the content the pre handler collected, and as it is emitted
PreContent ==
    Collect(Last, WalkState(<<>>, "", <<>>),
            [InitialContext(input.o) EXCEPT !.in_code = TRUE], Env).out

PreProcessed == pre_processed_content(PreContent, input.o)

Fence == IF input.o.code_block_style = "Backticks" THEN <<BT, BT, BT>> ELSE <<"~", "~", "~">>

Indent4 == <<" ", " ", " ", " ">>

\* the indented block with its non-empty lines prefixed
IndentedNonEmpty ==
    LET ls == RustLines(PreProcessed)
    IN  JoinNl([k \in 1..Len(ls) |-> IF ls[k] = <<>> THEN <<>> ELSE Indent4 \o ls[k]])

\* the indented block with every line prefixed
IndentedEvery ==
    LET ls == RustLines(PreProcessed)
    IN  JoinNl([k \in 1..Len(ls) |-> Indent4 \o ls[k]])

FencedBlock ==
    Fence \o input.o.code_language \o <<"\n">> \o PreProcessed \o <<"\n">>
    \o Fence \o <<"\n">>

\* the handler appended the block after at most two newlines
BlockIs(block) ==
    \E sep \in {<<>>, <<"\n">>, NLNL} : output = entry \o sep \o block

\* the single pre with content T, bare or in a code child, and no language
PlainPre ==
    /\ pc = "done" /\ result.kind = "ok"
    /\ input.doc \in {<<Tag("pre", <<TextNode(T)>>)>>,
                      <<Tag("pre", <<Tag("code", <<TextNode(T)>>)>>)>>}
    /\ ~input.v.on /\ input.o.code_language = <<>>
    /\ input.o.strip_tags = {} /\ input.o.preserve_tags = {}

C17_FenceCarriesDetectedLanguage ==
    (CodeBlockHandled /\ PreContent # <<>> /\ pre_language(Last).some
     /\ input.o.code_block_style # "Indented")
        => \E sep \in {<<>>, <<"\n">>, NLNL} :
              StartsWith(SubSeq(output, Len(entry) + Len(sep) + 1, Len(output)),
                         Fence \o pre_language(Last).lang \o <<"\n">>)

\* the root node before the last one is a pre that emitted a block, and the
\* last one is a paragraph or a text with the content T
AfterCodeBlock ==
    /\ Stepped /\ next > 2 /\ ~input.v.on
    /\ ~input.o.convert_as_inline
    /\ input.o.strip_tags = {} /\ input.o.preserve_tags = {}
    /\ IsTag(dom[next - 2]) /\ dom[next - 2].name = "pre"
    /\ Trim(text_content(dom[next - 2])) # <<>>
    /\ Last \in {Tag("p", <<TextNode(T)>>), TextNode(T)}

\* C18: outside inline mode a blank line precedes the code block when the
\* buffer is not empty, and a blank line separates the block from the content
\* of a following paragraph or text
C18_BlankLinesAroundCodeBlock ==
    /\ (CodeBlockHandled /\ PreContent # <<>> /\ ~input.o.convert_as_inline
        /\ entry # <<>>)
          => \E k \in 1..Len(output) :
                /\ EndsWith(SubSeq(output, 1, k), NLNL)
                /\ SubSeq(output, k + 1, Len(output))
                      = IF input.o.code_block_style = "Indented"
                        THEN IndentedNonEmpty \o NLNL ELSE FencedBlock
    /\ AfterCodeBlock
          => LET body == TrimEnd(output)
             IN  EndsWith(SubSeq(body, 1, Len(body) - 1), NLNL)

(***************************************************************************)
(* Line breaks.                                                            *)
(***************************************************************************)
RECURSIVE WalkUpTo(_, _, _, _)
\* the walker's state once the first k of the children cs are walked into
\* an empty buffer
WalkUpTo(cs, k, ctx, env) ==
    IF k = 0 THEN WalkState(<<>>, "", <<>>)
    ELSE WalkNode(cs, k, WalkUpTo(cs, k - 1, ctx, env), ctx, env)

IsBr(n) == IsTag(n) /\ n.name = "br"

\* a br reaches its handler: no visitor, and br neither stripped nor kept
BrRendered ==
    /\ ~input.v.on
    /\ "br" \notin input.o.strip_tags \cup input.o.preserve_tags

\* the context the heading handler walks its children in
HeadingCtx ==
    [InitialContext(input.o) EXCEPT
        !.in_heading = TRUE, !.convert_as_inline = TRUE, !.anc = <<Last.name>>]

HeadingHandled ==
    /\ ReachedHandler /\ BrRendered
    /\ Last.name \in HeadingNames
    /\ Last.name \notin input.o.strip_tags \cup input.o.preserve_tags

HardBreak ==
    IF input.o.newline_style = "Spaces" THEN <<" ", " ", "\n">> ELSE <<"\\", "\n">>

\* C13: a br outside a heading appends the hard break of newline_style, or
\* a single newline when the buffer is empty or ends with a newline; inside
\* a heading it trims the trailing spaces and tabs of the buffer and appends
\* two spaces and no newline
C13_LineBreak ==
    /\ (ReachedHandler /\ BrRendered /\ IsBr(Last))
          => output = entry \o (IF entry = <<>> \/ entry[Len(entry)] = "\n"
                                THEN <<"\n">> ELSE HardBreak)
    /\ HeadingHandled
          => \A k \in 1..Len(Last.children) :
                IsBr(Last.children[k])
                  => WalkUpTo(Last.children, k, HeadingCtx, Env).out
                       = TrimEndMatches(
                             WalkUpTo(Last.children, k - 1, HeadingCtx, Env).out,
                             {" ", "\t"})
                         \o <<" ", " ">>

\* a br in a heading found the collected text ending in a blank and trimmed it
C13_Witness ==
    /\ HeadingHandled
    /\ input.o.newline_style = "Backslash"
    /\ \E k \in 2..Len(Last.children) :
          /\ IsBr(Last.children[k])
          /\ LET before == WalkUpTo(Last.children, k - 1, HeadingCtx, Env).out
             IN  /\ before # <<>> /\ before[Len(before)] \in {" ", "\t"}
                 /\ WalkUpTo(Last.children, k, HeadingCtx, Env).out
                       = TrimEnd(before) \o <<" ", " ">>

(***************************************************************************)
(* List items.                                                             *)
(***************************************************************************)
ListNames == {"ul", "ol", "menu"}

RECURSIVE PlainList(_)
\* a list whose items hold a text and then at most one list of the same make
PlainList(n) ==
    /\ IsTag(n) /\ n.name \in ListNames
    /\ \A k \in 1..Len(n.children) :
          LET c == n.children[k]
          IN  \/ IsRaw(c) /\ Trim(c.text) = <<>>
              \/ /\ IsTag(c) /\ c.name = "li" /\ Len(c.children) \in {1, 2}
                 /\ c.children[1] = TextNode(T)
                 /\ Len(c.children) = 2 => PlainList(c.children[2])

StatedIndent(depth) ==
    IF input.o.list_indent_type = "Tabs" THEN Repeat(<<"\t">>, depth)
    ELSE Repeat(<<" ">>, depth * input.o.list_indent_width)

StatedBullet(bullets, ul_depth) ==
    bullets[((IF ul_depth > 0 THEN ul_depth - 1 ELSE 0) % Len(bullets)) + 1]

RECURSIVE StatedLines(_, _, _, _)
\* the lines the items of a plain list are stated to make: list_depth grows
\* by one with each level, ul_depth with each ul, an ol counts from its start
StatedLines(list, depth, ul_depth, bullets) ==
    LET items == SelectSeq(list.children, LAMBDA c : IsTag(c))
        u == IF list.name = "ul" THEN ul_depth + 1 ELSE ul_depth
        bs == IF list.name = "menu" THEN <<"-">> ELSE bullets
        first == IF list.attrs.start >= 0 THEN list.attrs.start ELSE 1
        marker(j) == IF list.name = "ol" THEN Digits(first + j - 1) \o <<".", " ">>
                     ELSE <<StatedBullet(bs, u), " ">>
        below(j) == IF Len(items[j].children) = 2
                    THEN StatedLines(items[j].children[2], depth + 1, u, bs)
                    ELSE <<>>
    IN  Concat([j \in 1..Len(items) |->
                  <<StatedIndent(depth) \o marker(j) \o T>> \o below(j)])

ItemLines == SelectSeq(Lines(SubSeq(output, Len(entry) + 1, Len(output))),
                       LAMBDA l : l # <<>>)

ListHandled ==
    /\ ReachedHandler /\ ~input.v.on
    /\ Last.name \notin input.o.strip_tags \cup input.o.preserve_tags
    /\ input.o.bullets # <<>>

\* C14: an item that is no task and in no table cell starts its line with
\* the indent of its list_depth and then its marker, the counter and ". " in
\* an ordered list, else the bullet of its ul_depth and a space
C14_ItemStartsItsLine ==
    /\ (ListHandled /\ PlainList(Last))
          => ItemLines = StatedLines(Last, 0, 0, input.o.bullets)
    /\ (ListHandled /\ Last = Tag("li", <<TextNode(T)>>))
          => Lines(output)[Len(Lines(entry))]
                = <<StatedBullet(input.o.bullets, 0), " ">> \o T

RECURSIVE NoMenuBelow(_)
NoMenuBelow(n) ==
    \A k \in 1..Len(n.children) :
        n.children[k].name # "menu" /\ NoMenuBelow(n.children[k])

\* the items of ul and ol lists, which open on a line of their own
C14_ListItemLines ==
    (ListHandled /\ PlainList(Last) /\ NoMenuBelow(Last))
        => ItemLines = StatedLines(Last, 0, 0, input.o.bullets)

C14_Witness ==
    /\ ListHandled /\ PlainList(Last) /\ NoMenuBelow(Last)
    /\ Len(input.o.bullets) = 2 /\ input.o.list_indent_type = "Tabs"
    /\ Len(ItemLines) = 3
    /\ ItemLines[2] = <<"\t">> \o <<input.o.bullets[2], " ">> \o T

(***************************************************************************)
(* Frontmatter.                                                            *)
(***************************************************************************)
\* the entries the document's head yields, in key order
HeadEntries ==
    LET ks == {k \in 1..Len(dom) : extract_head_metadata(dom[k], input.o) # <<>>}
    IN  IF ks = {} THEN <<>>
        ELSE extract_head_metadata(dom[CHOOSE j \in ks : \A l \in ks : j <= l],
                                   input.o)

KeysAscend(md) == \A k \in 1..(Len(md) - 1) : KeyLess(md[k][1], md[k + 1][1])

RECURSIVE EntryLines(_)
EntryLines(md) ==
    IF md = <<>> THEN <<>>
    ELSE Head(md)[1] \o <<":", " ">> \o Head(md)[2] \o <<"\n">> \o EntryLines(Tail(md))

FrontmatterBlock(md) ==
    <<"-", "-", "-", "\n">> \o EntryLines(md) \o <<"-", "-", "-", "\n">>

BeginsWithFrontmatter ==
    /\ HeadEntries # <<>> /\ KeysAscend(HeadEntries)
    /\ StartsWith(result.text, FrontmatterBlock(HeadEntries))

C15_InlineWitness ==
    /\ Succeeded /\ NormalPath /\ input.o.extract_metadata /\ input.o.convert_as_inline
    /\ HeadEntries # <<>> /\ ~BeginsWithFrontmatter

(***************************************************************************)
(* Inline code.                                                            *)
(***************************************************************************)
InlineCodeHandled ==
    /\ ReachedHandler /\ ~input.v.on
    /\ Last.name = "code"
    /\ "code" \notin input.o.strip_tags \cup input.o.preserve_tags

\* the content the code handler collected
CodeContent ==
    Collect(Last, WalkState(<<>>, "", <<>>),
            [InitialContext(input.o) EXCEPT !.in_code = TRUE], Env).out

\* the length of the longest run of backticks in s
LongestRun(s) ==
    CHOOSE n \in 0..Len(s) :
        /\ Contains(s, Repeat(<<BT>>, n))
        /\ ~Contains(s, Repeat(<<BT>>, n + 1))

\* the length of the run of backticks s opens with, and ends with
OpeningRun(s) ==
    CHOOSE n \in 0..Len(s) :
        /\ StartsWith(s, Repeat(<<BT>>, n))
        /\ ~StartsWith(s, Repeat(<<BT>>, n + 1))

ClosingRun(s) ==
    CHOOSE n \in 0..Len(s) :
        /\ EndsWith(s, Repeat(<<BT>>, n))
        /\ ~EndsWith(s, Repeat(<<BT>>, n + 1))

Emitted == SubSeq(output, Len(entry) + 1, Len(output))

\* C16: the delimiter run on each side of an inline code is strictly longer
\* than the longest run of backticks in its content, whatever that length;
\* a content without backticks gets a single backtick
C16_DelimiterLongerThanRuns ==
    (InlineCodeHandled /\ Trim(CodeContent) # <<>>)
        => /\ OpeningRun(Emitted) = ClosingRun(Emitted)
           /\ IF Contains(CodeContent, <<BT>>)
              THEN OpeningRun(Emitted) > LongestRun(CodeContent)
              ELSE OpeningRun(Emitted) = 1

\* the same for the contents whose longest run is one backtick
C16_SingleBackticks ==
    (InlineCodeHandled /\ Trim(CodeContent) # <<>> /\ LongestRun(CodeContent) <= 1)
        => /\ OpeningRun(Emitted) = ClosingRun(Emitted)
           /\ OpeningRun(Emitted) = LongestRun(CodeContent) + 1

(***************************************************************************)
(* Text nodes and whitespace.                                              *)
(***************************************************************************)
\* the node walked last is a text node of the root, outside code
TextHandled == Stepped /\ IsRaw(Last) /\ ~input.v.on /\ Last.text # <<>>

BetweenInlineSiblings ==
    /\ next - 1 \in 2..(Len(dom) - 1)
    /\ IsTag(dom[next - 2]) /\ is_inline_element(dom[next - 2].name)
    /\ IsTag(dom[next]) /\ is_inline_element(dom[next].name)

WhitespaceOnly(text) == \A k \in 1..Len(text) : IsWs(text[k])

OneSpaceAtMost == IF EndsWith(entry, <<" ">>) THEN entry ELSE entry \o <<" ">>

\* C19: in Normalized mode a whitespace-only text of two or more characters
\* between two inline siblings adds one space to the buffer, none if it ends
\* with a space, with or without a newline in the whitespace; one of a single
\* character is appended as it is
C19_WhitespaceBetweenInline ==
    (/\ TextHandled /\ BetweenInlineSiblings /\ WhitespaceOnly(Last.text)
     /\ input.o.whitespace_mode = "Normalized")
        => output = IF Len(Last.text) >= 2 THEN OneSpaceAtMost
                    ELSE entry \o Last.text

\* the same for the whitespace that holds no newline
C19_BlanksBetweenInline ==
    (/\ TextHandled /\ BetweenInlineSiblings /\ WhitespaceOnly(Last.text)
     /\ input.o.whitespace_mode = "Normalized" /\ ~Contains(Last.text, <<"\n">>))
        => output = IF Len(Last.text) >= 2 THEN OneSpaceAtMost
                    ELSE entry \o Last.text

\* C20: in Strict mode with strip_newlines off a text node is appended to
\* the buffer as its escaped text, no whitespace of it collapsed or dropped,
\* a whitespace-only node with a blank line included
C20_StrictKeepsWhitespace ==
    (/\ TextHandled /\ input.o.whitespace_mode = "Strict"
     /\ ~input.o.strip_newlines)
        => output = entry \o escape(Last.text, input.o)

\* the same for the nodes that are not whitespace with a blank line
C20_StrictKeepsText ==
    (/\ TextHandled /\ input.o.whitespace_mode = "Strict"
     /\ ~input.o.strip_newlines
     /\ ~(WhitespaceOnly(Last.text) /\ Contains(Last.text, NLNL)))
        => output = entry \o escape(Last.text, input.o)

(***************************************************************************)
(* Table cells.                                                            *)
(***************************************************************************)
TableHandled ==
    /\ ReachedHandler /\ ~input.v.on
    /\ Last.name = "table"
    /\ "table" \notin input.o.strip_tags \cup input.o.preserve_tags

\* the cells of the table walked last
TableCells ==
    LET rows == TableRows(Last.children)
    IN  {RowCells(rows[r])[c] : <<r, c>> \in
            {p \in (1..Len(rows)) \X (1..2) : p[2] <= Len(RowCells(rows[p[1]]))}}

\* the buffer the text nodes of a cell are rendered into
CellBuffer(cell) ==
    table_cell(cell, WalkState(<<>>, "", <<>>),
               [InitialContext(input.o) EXCEPT !.anc = <<"table">>], Env).out

\* every pipe of s is behind a backslash
PipesEscaped(s) ==
    \A k \in 1..Len(s) : s[k] = "|" => (k > 1 /\ s[k - 1] = "\\")

\* C21: every pipe of a text node rendered with in_table_cell set is in
\* the buffer as backslash-pipe, whatever the escape flags and whatever
\* the nesting, text inside code within the cell included
C21_PipesEscapedInCells ==
    TableHandled => \A cell \in TableCells : PipesEscaped(CellBuffer(cell))

\* the same for the cells that hold no code element
C21_PipesEscapedOutsideCode ==
    TableHandled =>
        \A cell \in TableCells :
            "code" \notin TagNames(cell.children) => PipesEscaped(CellBuffer(cell))

\* a table whose cell of text with a pipe was rendered, the pipe escaped
C21_Witness ==
    /\ TableHandled
    /\ \E cell \in TableCells :
           /\ cell.children = <<TextNode(PipeText)>>
           /\ CellBuffer(cell) = <<"T", "\\", "|", "T">>

(***************************************************************************)
(* Anchors without a target.                                               *)
(***************************************************************************)
\* the last root node is an anchor its handler renders, without a visitor
AnyAnchorHandled ==
    /\ ReachedHandler /\ ~input.v.on
    /\ Last.name = "a"
    /\ "a" \notin input.o.strip_tags \cup input.o.preserve_tags

\* the buffer when the anchor's children are rendered into it in the
\* parent's context
ChildrenRendered ==
    WalkChildren(Last, WalkState(entry, "", <<>>), InitialContext(input.o), Env).out

NoLinkSyntax(s) == ~Contains(s, <<"[">>) /\ ~Contains(s, <<"]", "(">>)

\* C22: an anchor whose href is absent or the empty string has its
\* children rendered into the buffer in the parent's context, and adds no
\* link syntax
C22_EmptyHrefRendersChildren ==
    (AnyAnchorHandled /\ (~Last.attrs.has_href \/ Last.attrs.href = <<>>))
        => /\ output = ChildrenRendered
           /\ NoLinkSyntax(SubSeq(output, Len(entry) + 1, Len(output)))

\* the same for the anchors that have no href attribute
C22_AbsentHrefRendersChildren ==
    (AnyAnchorHandled /\ ~Last.attrs.has_href)
        => /\ output = ChildrenRendered
           /\ NoLinkSyntax(SubSeq(output, Len(entry) + 1, Len(output)))

\* an anchor without href whose two children were rendered
C22_Witness ==
    /\ AnyAnchorHandled /\ ~Last.attrs.has_href
    /\ Len(Last.children) = 2
    /\ output = <<"*", "*", "u", "*", "*", "T">>

(***************************************************************************)
(* Images.                                                                 *)
(***************************************************************************)
\* the img elements of a forest, in document order
RECURSIVE ImgsIn(_)
ImgsIn(cs) ==
    IF cs = <<>> THEN <<>>
    ELSE (IF IsTag(Head(cs)) /\ Head(cs).name = "img" THEN <<Head(cs)>>
          ELSE IF IsTag(Head(cs)) THEN ImgsIn(Head(cs).children)
          ELSE <<>>) \o ImgsIn(Tail(cs))

\* the last root node holds one img and its handler was reached
ImgHandled ==
    /\ ReachedHandler /\ ~input.v.on
    /\ Len(ImgsIn(<<Last>>)) = 1
    /\ TagNames(<<Last>>) \cap (input.o.strip_tags \cup input.o.preserve_tags) = {}

TheImg == ImgsIn(<<Last>>)[1]

\* the img is in a heading: the heading is the root node or the child of one
HeadingAtRoot == Last.name \in HeadingNames

HeadingBelowRoot ==
    /\ Last.name \notin HeadingNames
    /\ Last.children # <<>>
    /\ IsTag(Last.children[1]) /\ Last.children[1].name \in HeadingNames

ImgInHeading == HeadingAtRoot \/ HeadingBelowRoot

TheHeadingName == IF HeadingAtRoot THEN Last.name ELSE Last.children[1].name

\* the tag names of the heading's ancestors
HeadingAncestors == IF HeadingAtRoot THEN {} ELSE {Last.name}

Added == SubSeq(output, Len(entry) + 1, Len(output))

RenderedAsImage == Contains(Added, image_markdown(TheImg))

RenderedAsAlt == Contains(Added, TheImg.attrs.alt) /\ ~Contains(Added, <<"!", "[">>)

NotRendered == ~Contains(Added, TheImg.attrs.alt) /\ ~Contains(Added, <<"!", "[">>)

Rule == <<"-", "-", "-", "\n">>

PlainOptions ==
    /\ ~input.v.on /\ ~input.o.convert_as_inline
    /\ input.o.strip_tags = {} /\ input.o.preserve_tags = {}

\* the last root node is an hr, walked after content
HrAfterContent ==
    /\ Stepped /\ PlainOptions
    /\ IsTag(Last) /\ Last.name = "hr"
    /\ Trim(entry) # <<>>

\* the last root node is a paragraph that holds text, an hr and text
HrInParagraph == Stepped /\ PlainOptions /\ Last = Tag("p", <<TextNode(T), Hr, TextNode(T)>>)

\* the root node before the last one is an hr and the last one renders T
AfterHr ==
    /\ Stepped /\ next > 2 /\ PlainOptions
    /\ dom[next - 2] = Hr
    /\ Last \in {Tag("p", <<TextNode(T)>>), TextNode(T), Tag("strong", <<TextNode(T)>>)}

\* s ends with a blank line and then the rule's line
BlankLineThenRule(s) == EndsWith(s, NLNL \o Rule)

\* the content that ends s stands behind a blank line
BlankLineBeforeLast(s) ==
    LET body == TrimEnd(s)
    IN  \E k \in 1..Len(body) :
            /\ EndsWith(SubSeq(body, 1, k), NLNL)
            /\ ~Contains(SubSeq(body, k + 1, Len(body)), <<"\n">>)

\* C24: an hr is the line --- between blank lines: a blank line stands
\* between it and the content before it, inside a paragraph after text
\* too, and between it and the content after it
C24_RuleBetweenBlankLines ==
    /\ HrAfterContent => BlankLineThenRule(output)
    /\ HrInParagraph => Contains(Added, T \o NLNL \o Rule)
    /\ AfterHr => BlankLineBeforeLast(output)

\* the same for a root hr behind content whose last line does not start
\* with ">", and for the paragraph that follows an hr
C24_RuleAfterBlankLine ==
    /\ (HrAfterContent /\ ~StartsWith(TrimStart(LastNonBlankLine(entry)), <<">">>))
          => BlankLineThenRule(output)
    /\ (AfterHr /\ Last.name = "p") => BlankLineBeforeLast(output)

(***************************************************************************)
(* Misnesting and its repair.                                              *)
(***************************************************************************)
\* the elements of a forest, each with the names of its ancestors
RECURSIVE Elements(_, _)
Elements(cs, anc) ==
    UNION {IF IsTag(cs[k])
           THEN {[name |-> cs[k].name, anc |-> anc]}
                \cup Elements(cs[k].children, Append(anc, cs[k].name))
           ELSE {} : k \in 1..Len(cs)}

UnderInline(e) ==
    \E k \in 1..Len(e.anc) :
        is_inline_element(e.anc[k]) /\ e.anc[k] \notin {"a", "ins", "del"}

InContentsOfPre(e) == \E k \in 1..Len(e.anc) : e.anc[k] \in {"pre", "code"}

\* a block element under an inline ancestor other than a, ins, del, not in
\* the contents of a pre or code
StatedMisnest(doc) ==
    \E e \in Elements(doc, <<>>) :
        is_block(e.name) /\ UnderInline(e) /\ ~InContentsOfPre(e)

\* the conversion is past the parse loop, on the walker's path
Parsed == pc = "parsed" /\ ~input.is_hocr

\* the misnest repair ran and tl::parse rejected the repaired input
RepairedReparseFailed ==
    /\ pc = "done" /\ repairs.misnest > 0 /\ ~tl_parse_ok(input, parses)

\* C25: has_inline_block_misnest is true exactly when a block element has
\* an inline ancestor other than a, ins and del and is not in the contents
\* of a pre or code, a pre under a span included; and when the re-parse of
\* the repaired input fails the conversion fails with ParseError
C25_MisnestExactlyAsStated ==
    /\ Parsed => (has_inline_block_misnest(dom) <=> StatedMisnest(dom))
    /\ RepairedReparseFailed => result.kind = "ParseError"

\* the same with the pre elements themselves left out of the blocks looked at
C25_MisnestOutsidePre ==
    /\ Parsed =>
          (has_inline_block_misnest(dom) <=>
              \E e \in Elements(dom, <<>>) :
                  /\ is_block(e.name) /\ UnderInline(e) /\ ~InContentsOfPre(e)
                  /\ e.name # "pre")
    /\ RepairedReparseFailed => result.kind = "ParseError"

(***************************************************************************)
(* The borrows of the visitor handle.                                      *)
(***************************************************************************)
Underline == Stepped /\ Last.kind = "tag" /\ Last.name = "u"

UnderlineAnswer == input.v.res["visit_underline"]

\* a child of the u element that makes a callback of its own: an element,
\* or a text that is not dropped as blank
CallingChildren ==
    {k \in 1..Len(Last.children) :
        \/ Last.children[k].kind = "tag"
        \/ Last.children[k].kind = "text" /\ Trim(Last.children[k].text) # <<>>}

DoubleBorrow == result.kind = "panic" /\ result.error = AlreadyBorrowed

\* C26: the visitor handle is never mutably borrowed while a borrow of it is
\* live; in particular a u element with a child, whose visit_underline
\* answers Continue or Error, is rendered without a second borrow_mut
C26_NoDoubleBorrow == ~DoubleBorrow

\* the second borrow happens only under a u element whose visit_underline
\* answers Continue or Error and whose children make a callback
C26_DoubleBorrowOnlyUnderU ==
    DoubleBorrow =>
        /\ Underline /\ input.v.on
        /\ UnderlineAnswer \in {"Continue", "Error"}
        /\ CallingChildren # {}

\* a u element with a child, whose visit_underline answers Continue or
\* Error, has been rendered and the second borrow_mut panicked
C26_Witness ==
    /\ Underline /\ input.v.on /\ pc = "done"
    /\ UnderlineAnswer \in {"Continue", "Error"}
    /\ Len(Last.children) > 0
    /\ DoubleBorrow

(***************************************************************************)
(* The slice handed to visit_element_end.                                  *)
(***************************************************************************)
ElementSlicePanic == result.kind = "panic" /\ result.error = ElementSliceOutOfBounds

\* the element just walked is one whose handler runs to the element-end
\* callback of a visitor
ElementEndDue ==
    /\ Stepped /\ Last.kind = "tag" /\ input.v.on
    /\ input.v.res["visit_element_start"] = "Continue"
    /\ Last.name # "table"

\* C27: where visit_element_end is called, element_output_start is at most
\* output.len(): no handler leaves the buffer shorter than it was at the
\* element's entry, so the slice output[element_output_start..] is in bounds
C27_ElementSliceInBounds == ~ElementSlicePanic

\* the slice is out of bounds only past an element entered on a buffer that
\* ends in whitespace, which its handler trimmed, or past one that holds a
\* list item whose visit_list_item answer cut the buffer back to the start
\* of its last line
C27_SliceOnlyAfterTrimOrCut ==
    ElementSlicePanic =>
        /\ ElementEndDue
        /\ \/ entry # <<>> /\ entry[Len(entry)] \in {" ", "\t", "\n"}
           \/ input.v.res["visit_list_item"] \in {"Skip", "Custom", "PreserveHtml"}

\* a span without content, entered after a line break, dropped the line
\* end from the buffer and the element-end slice panicked
C27_Witness ==
    /\ ElementEndDue /\ Last.name = "span" /\ Last.children = <<>>
    /\ \A c \in Callbacks : input.v.res[c] = "Continue"
    /\ EndsWith(entry, <<"\n">>)
    /\ Len(output) < Len(entry)
    /\ ElementSlicePanic

(***************************************************************************)
(* The bullet of a list item.                                              *)
(***************************************************************************)
BulletPanic == result.kind = "panic" /\ result.error = RemainderByZero

\* C28: the li handler never panics, whatever the bullets option holds, the
\* empty string included: the bullet of an item falls back to '*'
C28_ItemNeverPanics == ~BulletPanic

\* the li handler panics only under an empty bullets option, and every
\* conversion of a list under a non-empty one ends without a panic
C28_PanicOnlyWithoutBullets == BulletPanic => input.o.bullets = <<>>

\* an unordered list converted with bullets = "" ended in the panic
C28_Witness ==
    /\ pc = "done" /\ input.o.bullets = <<>>
    /\ Last.kind = "tag" /\ Last.name = "ul"
    /\ BulletPanic

(***************************************************************************)
(* The first character of the result.                                      *)
(***************************************************************************)
\* C30: a result that is not empty never begins with a newline, whether the
\* document opens with a br or with whitespace text
C30_NoLeadingNewline ==
    Succeeded /\ NormalPath /\ result.text # <<>> => result.text[1] # "\n"

\* the document's first node is a br, a table
OpensWith(name) ==
    input.doc # <<>> /\ input.doc[1].kind = "tag" /\ input.doc[1].name = name

OpensWithBr == OpensWith("br")

\* the document's first node is a text that starts with a visible character
OpensWithVisibleText ==
    /\ input.doc # <<>> /\ input.doc[1].kind = "text"
    /\ input.doc[1].text # <<>> /\ input.doc[1].text[1] \notin {" ", "\t", "\n", "\r"}

\* the result of a document that opens with visible text does not begin
\* with a newline
C30_VisibleTextFirst ==
    Succeeded /\ NormalPath /\ result.text # <<>> /\ OpensWithVisibleText =>
        result.text[1] # "\n"

\* a document that opens with a br was converted and its result begins with
\* the br's newline
C30_Witness ==
    /\ Succeeded /\ NormalPath /\ OpensWithBr
    /\ result.text # <<>> /\ result.text[1] = "\n"

(***************************************************************************)
(* The element events of a visitor.                                        *)
(***************************************************************************)
\* how many times the callback cb was made so far
Calls(cb) == Cardinality({k \in 1..Len(visits) : visits[k].cb = cb})

\* every visit_element_start so far was answered Continue
AllStartsContinue == input.v.on /\ input.v.res["visit_element_start"] = "Continue"

\* C29: the element events are balanced: every visit_element_start that
\* returns Continue is followed by exactly one visit_element_end for the
\* same element, whichever handler renders it, so past each root node as
\* many element ends as element starts were made
C29_ElementEventsBalanced ==
    Stepped /\ AllStartsContinue /\ result.kind # "panic" =>
        Calls("visit_element_end") = Calls("visit_element_start")

\* no element end is made without its element start
C29_NoEndWithoutStart ==
    AllStartsContinue => Calls("visit_element_end") <= Calls("visit_element_start")

\* a preserved paragraph was rendered under a visitor: its element start
\* was made, its element end was not
C29_Witness ==
    /\ Stepped /\ AllStartsContinue /\ Last.kind = "tag" /\ Last.name = "p"
    /\ "p" \in input.o.preserve_tags
    /\ Calls("visit_element_start") = 1 /\ Calls("visit_element_end") = 0

====
